---- MODULE Spec2Model ----
(***************************************************************************)
(* WDIB control plane: one device, one tick at a time.                     *)
(*                                                                         *)
(* The module models run_tick (src/src/wdib/runtime.py) as a sequence of   *)
(* steps over the in-memory state dict `mem`, the persisted state.json     *)
(* `disk`, the event log `events`, the human inbox file `inbox` and the    *)
(* session/public files.  The hardware reconciler, the planner and the     *)
(* reducer are operators translated from control/hardware.py,              *)
(* control/planner.py and control/reducer.py.                              *)
(*                                                                         *)
(* Abstractions: dates are integers (NoDate = None, BadDate = a string     *)
(* that date.fromisoformat rejects); ids "<prefix>-YYYYMMDD-NNN" are       *)
(* triples <<prefix, date, counter>>; free-text fields that steer no       *)
(* control decision (description, blocked_by, task notes, evidence) are    *)
(* left out; str.strip and str.lower are tables over the strings used.     *)
(***************************************************************************)
EXTENDS Integers, Sequences, FiniteSets, TLC

VARIABLES
    today,      \* date.today(), as a day number
    mission,    \* text of MISSION.md
    channels,   \* WDIB_NOTIFICATION_CHANNELS, as the list of its comma-separated parts
    disk,       \* state.json
    mem,        \* the state dict of the running tick
    inbox,      \* runtime/human_message.txt: NoFile or the message body
    events,     \* events.ndjson, one record per line
    files,      \* sessions/, runtime/work_orders, runtime/worker_results, public/
    pc,         \* position of run_tick
    cur,        \* locals of the running tick, the state load_state returned, the
                \* signals the reconciler observed and the becoming the worker returned
    out,        \* what the last finished tick returned / called
    ticks       \* number of tick invocations so far

vars == <<today, mission, channels, disk, mem, inbox, events, files, pc, cur, out, ticks>>

-----------------------------------------------------------------------------
(* Bounds of the model *)

MaxTicks == 4
MaxCycles == 2
MaxTasks == 2
MaxHardware == 2

-----------------------------------------------------------------------------
(* Dates *)

NoDate == 0
BadDate == -1
Today0 == 10
Yesterday0 == Today0 - 1
Tomorrow0 == Today0 + 1

-----------------------------------------------------------------------------
(* Strings: str.strip() and str.lower() over the texts the model uses *)

Strip(s) ==
    CASE s = " usb camera " -> "usb camera"
      [] s = "fix wifi " -> "fix wifi"
      [] s = "  " -> ""
      [] s = "  Continue with normal work \n" -> "Continue with normal work"
      [] OTHER -> s

Lower(s) ==
    CASE s = "USB Camera" -> "usb camera"
      [] s = "Fix WiFi" -> "fix wifi"
      [] s = "Scan Room" -> "scan room"
      [] s = "Mic" -> "mic"
      [] s = "Lidar" -> "lidar"
      [] s = "Slack" -> "slack"
      [] s = "Become a reliable autonomous WDIB loop." -> "become a reliable autonomous wdib loop."
      [] s = "Help keep the beach clean." -> "help keep the beach clean."
      [] s = "Please terminate this device now." -> "please terminate this device now."
      [] s = "Shutdown and GOODBYE" -> "shutdown and goodbye"
      [] s = "Continue with normal work" -> "continue with normal work"
      [] s = "Gracefully conclude this mission run and hand over cleanly." -> "gracefully conclude this mission run and hand over cleanly."
      [] OTHER -> s

\* the substrings of a lower-cased text that matter to the marker searches
Substrings(s) ==
    CASE s = "become a reliable autonomous wdib loop." -> {"wdib", "autonomous", "loop"}
      [] s = "help keep the beach clean." -> {"beach", "clean"}
      [] s = "please terminate this device now." -> {"terminate", "device"}
      [] s = "shutdown and goodbye" -> {"shutdown", "goodbye"}
      [] s = "continue with normal work" -> {"continue", "work"}
      [] s = "gracefully conclude this mission run and hand over cleanly." -> {"mission", "conclude"}
      [] OTHER -> {}

-----------------------------------------------------------------------------
(* Sequences *)

Range(f) == {f[i] : i \in DOMAIN f}

RECURSIVE Flatten(_)
Flatten(ss) == IF ss = <<>> THEN <<>> ELSE Head(ss) \o Flatten(Tail(ss))

\* the events of one step, stamped with the cycle id as run_tick does
Stamp(evs, cid) ==
    [i \in DOMAIN evs |->
        [k \in DOMAIN evs[i] \cup {"cycle_id"} |->
            IF k = "cycle_id" THEN cid ELSE evs[i][k]]]

-----------------------------------------------------------------------------
(* control/hardware.py *)

PendingStatuses == {"OPEN", "DETECTED"}

\* ProbeDetected that promotes an OPEN request without the OPEN to DETECTED event
ProbeDetected_SilentDetection(r0, sig) ==
    LET r1 == IF r0.status = "OPEN"
              THEN [r0 EXCEPT !.status = "DETECTED", !.detected_on = today]
              ELSE r0
    IN
    IF Strip(r1.verify_command) # ""
    THEN
      IF sig.verify_ok
      THEN [req |-> [r1 EXCEPT !.status = "VERIFIED", !.verified_on = today,
                               !.notes = @ + 1],
            events |-> << [type |-> "HARDWARE_STATUS_CHANGED", request_id |-> r0.id,
                           from |-> "DETECTED", to |-> "VERIFIED"] >>,
            verify_runs |-> 1]
      ELSE [req |-> [r1 EXCEPT !.verify_failures = @ + 1, !.notes = @ + 1],
            events |-> << [type |-> "HARDWARE_VERIFICATION_FAILED", request_id |-> r0.id,
                           verify_failures |-> r1.verify_failures + 1] >>,
            verify_runs |-> 1]
    ELSE [req |-> [r1 EXCEPT !.status = "VERIFIED", !.verified_on = today],
          events |-> << [type |-> "HARDWARE_STATUS_CHANGED", request_id |-> r0.id,
                         from |-> "DETECTED", to |-> "VERIFIED"] >>,
          verify_runs |-> 0]

\* ProbeDetected that gives a request up at its second failed verification
ProbeDetected_FailsRequest(r0, sig) ==
    LET r1 == IF r0.status = "OPEN"
              THEN [r0 EXCEPT !.status = "DETECTED", !.detected_on = today]
              ELSE r0
        e1 == IF r0.status = "OPEN"
              THEN << [type |-> "HARDWARE_STATUS_CHANGED", request_id |-> r0.id,
                       from |-> "OPEN", to |-> "DETECTED"] >>
              ELSE <<>>
    IN
    IF Strip(r1.verify_command) # ""
    THEN
      IF sig.verify_ok
      THEN [req |-> [r1 EXCEPT !.status = "VERIFIED", !.verified_on = today,
                               !.notes = @ + 1],
            events |-> e1 \o << [type |-> "HARDWARE_STATUS_CHANGED", request_id |-> r0.id,
                                 from |-> "DETECTED", to |-> "VERIFIED"] >>,
            verify_runs |-> 1]
      ELSE [req |-> [r1 EXCEPT !.verify_failures = @ + 1, !.notes = @ + 1,
                               !.status = IF r1.verify_failures >= 1 THEN "FAILED" ELSE @],
            events |-> e1 \o << [type |-> "HARDWARE_VERIFICATION_FAILED", request_id |-> r0.id,
                                 verify_failures |-> r1.verify_failures + 1] >>,
            verify_runs |-> 1]
    ELSE [req |-> [r1 EXCEPT !.status = "VERIFIED", !.verified_on = today],
          events |-> e1 \o << [type |-> "HARDWARE_STATUS_CHANGED", request_id |-> r0.id,
                               from |-> "DETECTED", to |-> "VERIFIED"] >>,
          verify_runs |-> 0]

\* lines 86-145: the detection signal of request r0 is present
ProbeDetected(r0, sig) ==
    LET r1 == IF r0.status = "OPEN"
              THEN [r0 EXCEPT !.status = "DETECTED", !.detected_on = today]
              ELSE r0
        e1 == IF r0.status = "OPEN"
              THEN << [type |-> "HARDWARE_STATUS_CHANGED", request_id |-> r0.id,
                       from |-> "OPEN", to |-> "DETECTED"] >>
              ELSE <<>>
    IN
    IF Strip(r1.verify_command) # ""
    THEN
      IF sig.verify_ok
      THEN [req |-> [r1 EXCEPT !.status = "VERIFIED", !.verified_on = today,
                               !.notes = @ + 1],
            events |-> e1 \o << [type |-> "HARDWARE_STATUS_CHANGED", request_id |-> r0.id,
                                 from |-> "DETECTED", to |-> "VERIFIED"] >>,
            verify_runs |-> 1]
      ELSE [req |-> [r1 EXCEPT !.verify_failures = @ + 1, !.notes = @ + 1],
            events |-> e1 \o << [type |-> "HARDWARE_VERIFICATION_FAILED", request_id |-> r0.id,
                                 verify_failures |-> r1.verify_failures + 1] >>,
            verify_runs |-> 1]
    ELSE [req |-> [r1 EXCEPT !.status = "VERIFIED", !.verified_on = today],
          events |-> e1 \o << [type |-> "HARDWARE_STATUS_CHANGED", request_id |-> r0.id,
                               from |-> "DETECTED", to |-> "VERIFIED"] >>,
          verify_runs |-> 0]

\* ProbeUndetected that keeps detected_on when it moves a request back to OPEN
ProbeUndetected_KeepsDetectedOn(r0) ==
    IF r0.status = "DETECTED"
    THEN [req |-> [r0 EXCEPT !.status = "OPEN", !.notes = @ + 1],
          events |-> << [type |-> "HARDWARE_STATUS_CHANGED", request_id |-> r0.id,
                         from |-> "DETECTED", to |-> "OPEN"] >>,
          verify_runs |-> 0]
    ELSE [req |-> r0, events |-> <<>>, verify_runs |-> 0]

\* lines 147-162: the detection signal of request r0 is absent
ProbeUndetected(r0) ==
    IF r0.status = "DETECTED"
    THEN [req |-> [r0 EXCEPT !.status = "OPEN", !.detected_on = NoDate, !.notes = @ + 1],
          events |-> << [type |-> "HARDWARE_STATUS_CHANGED", request_id |-> r0.id,
                         from |-> "DETECTED", to |-> "OPEN"] >>,
          verify_runs |-> 0]
    ELSE [req |-> r0, events |-> <<>>, verify_runs |-> 0]

\* ProbeRequest that skips only VERIFIED requests
ProbeRequest_ChecksFailed(r, sig) ==
    IF r.status = "VERIFIED"
    THEN [req |-> r, events |-> <<>>, verify_runs |-> 0]
    ELSE
      LET r0 == [r EXCEPT !.last_checked_on = today] IN
      IF sig.detected THEN ProbeDetected(r0, sig) ELSE ProbeUndetected(r0)

\* ProbeRequest that skips only FAILED requests
ProbeRequest_ChecksVerified(r, sig) ==
    IF r.status = "FAILED"
    THEN [req |-> r, events |-> <<>>, verify_runs |-> 0]
    ELSE
      LET r0 == [r EXCEPT !.last_checked_on = today] IN
      IF sig.detected THEN ProbeDetected(r0, sig) ELSE ProbeUndetected(r0)

\* One iteration of the loop of probe_hardware_requests on request r, with the
\* machine-observed signals sig = [detected, verify_ok] of this pass;
\* verify_runs counts the calls of _run_shell(verify_command).
ProbeRequest(r, sig) ==
    IF r.status \in {"VERIFIED", "FAILED"}
    THEN [req |-> r, events |-> <<>>, verify_runs |-> 0]
    ELSE
      LET r0 == [r EXCEPT !.last_checked_on = today] IN
      IF sig.detected THEN ProbeDetected(r0, sig) ELSE ProbeUndetected(r0)

\* probe_hardware_requests: sigs[i] are the signals observed for request i
probe_hardware_requests(requests, sigs) ==
    LET probed == [i \in DOMAIN requests |-> ProbeRequest(requests[i], sigs[i])] IN
    [requests |-> [i \in DOMAIN requests |-> probed[i].req],
     events |-> Flatten([i \in DOMAIN requests |-> probed[i].events]),
     verify_runs |-> [i \in DOMAIN requests |-> probed[i].verify_runs]]

-----------------------------------------------------------------------------
(* control/planner.py *)

_MAX_CONSECUTIVE_SELECTIONS == 2

\* date.fromisoformat of the stripped text; NoDate stands for None
_parse_defer_date(raw) == IF raw > 0 THEN raw ELSE NoDate

_selection_streak(task) == IF task.selection_streak > 0 THEN task.selection_streak ELSE 0

_is_task_deferred(task) ==
    LET defer_until == _parse_defer_date(task.defer_until) IN
    IF defer_until = NoDate THEN FALSE ELSE defer_until > today

\* RefreshTask that keeps a deferral that ends today
RefreshTask_KeepsToday(task) ==
    IF task.defer_until = NoDate
    THEN [task |-> task, events |-> <<>>]
    ELSE IF _parse_defer_date(task.defer_until) = NoDate
    THEN [task |-> [task EXCEPT !.defer_until = NoDate, !.defer_reason = ""],
          events |-> << [type |-> "TASK_DEFER_INVALID", task_id |-> task.id] >>]
    ELSE IF _parse_defer_date(task.defer_until) < today
    THEN [task |-> [task EXCEPT !.defer_until = NoDate, !.defer_reason = ""],
          events |-> << [type |-> "TASK_DEFER_RELEASED", task_id |-> task.id] >>]
    ELSE [task |-> task, events |-> <<>>]

\* one iteration of the loop of _refresh_deferred_tasks
RefreshTask(task) ==
    IF task.defer_until = NoDate
    THEN [task |-> task, events |-> <<>>]
    ELSE IF _parse_defer_date(task.defer_until) = NoDate
    THEN [task |-> [task EXCEPT !.defer_until = NoDate, !.defer_reason = ""],
          events |-> << [type |-> "TASK_DEFER_INVALID", task_id |-> task.id] >>]
    ELSE IF _parse_defer_date(task.defer_until) <= today
    THEN [task |-> [task EXCEPT !.defer_until = NoDate, !.defer_reason = ""],
          events |-> << [type |-> "TASK_DEFER_RELEASED", task_id |-> task.id] >>]
    ELSE [task |-> task, events |-> <<>>]

_refresh_deferred_tasks(tasks) ==
    LET refreshed == [i \in DOMAIN tasks |-> RefreshTask(tasks[i])] IN
    [tasks |-> [i \in DOMAIN tasks |-> refreshed[i].task],
     events |-> Flatten([i \in DOMAIN tasks |-> refreshed[i].events])]

\* the least element of a non-empty set of indexes
MinIndex(S) == CHOOSE i \in S : \A j \in S : i <= j

\* sorted(in_progress_indexes, key=(streak, idx))[0]
FirstByStreak(tasks, S) ==
    CHOOSE i \in S : \A j \in S :
        \/ _selection_streak(tasks[i]) < _selection_streak(tasks[j])
        \/ /\ _selection_streak(tasks[i]) = _selection_streak(tasks[j])
           /\ i <= j

NoRotation == [type |-> "NONE"]

\* _pick_task that rotates only once the streak exceeds the limit
_pick_task_LateRotation(tasks) ==
    LET in_progress_indexes ==
            {i \in DOMAIN tasks : tasks[i].status = "IN_PROGRESS" /\ ~_is_task_deferred(tasks[i])}
        todo_indexes ==
            {i \in DOMAIN tasks : tasks[i].status = "TODO" /\ ~_is_task_deferred(tasks[i])}
    IN
    IF in_progress_indexes # {}
    THEN
      LET candidate_idx == FirstByStreak(tasks, in_progress_indexes) IN
      IF _selection_streak(tasks[candidate_idx]) <= _MAX_CONSECUTIVE_SELECTIONS \/ todo_indexes = {}
      THEN [index |-> candidate_idx, promoted |-> FALSE, rotation |-> NoRotation]
      ELSE [index |-> MinIndex(todo_indexes), promoted |-> TRUE,
            rotation |-> [type |-> "TASK_PLANNER_ROTATED",
                          from_task_id |-> tasks[candidate_idx].id,
                          to_task_id |-> tasks[MinIndex(todo_indexes)].id]]
    ELSE IF todo_indexes # {}
    THEN [index |-> MinIndex(todo_indexes), promoted |-> TRUE, rotation |-> NoRotation]
    ELSE [index |-> 0, promoted |-> FALSE, rotation |-> NoRotation]

\* _pick_task that reports a rotation without promoting the TODO task
_pick_task_NoPromote(tasks) ==
    LET in_progress_indexes ==
            {i \in DOMAIN tasks : tasks[i].status = "IN_PROGRESS" /\ ~_is_task_deferred(tasks[i])}
        todo_indexes ==
            {i \in DOMAIN tasks : tasks[i].status = "TODO" /\ ~_is_task_deferred(tasks[i])}
    IN
    IF in_progress_indexes # {}
    THEN
      LET candidate_idx == FirstByStreak(tasks, in_progress_indexes) IN
      IF _selection_streak(tasks[candidate_idx]) < _MAX_CONSECUTIVE_SELECTIONS \/ todo_indexes = {}
      THEN [index |-> candidate_idx, promoted |-> FALSE, rotation |-> NoRotation]
      ELSE [index |-> MinIndex(todo_indexes), promoted |-> FALSE,
            rotation |-> [type |-> "TASK_PLANNER_ROTATED",
                          from_task_id |-> tasks[candidate_idx].id,
                          to_task_id |-> tasks[MinIndex(todo_indexes)].id]]
    ELSE IF todo_indexes # {}
    THEN [index |-> MinIndex(todo_indexes), promoted |-> TRUE, rotation |-> NoRotation]
    ELSE [index |-> 0, promoted |-> FALSE, rotation |-> NoRotation]

\* _pick_task: index 0 stands for None
_pick_task(tasks) ==
    LET in_progress_indexes ==
            {i \in DOMAIN tasks : tasks[i].status = "IN_PROGRESS" /\ ~_is_task_deferred(tasks[i])}
        todo_indexes ==
            {i \in DOMAIN tasks : tasks[i].status = "TODO" /\ ~_is_task_deferred(tasks[i])}
    IN
    IF in_progress_indexes # {}
    THEN
      LET candidate_idx == FirstByStreak(tasks, in_progress_indexes)
          candidate_streak == _selection_streak(tasks[candidate_idx])
      IN
      IF candidate_streak < _MAX_CONSECUTIVE_SELECTIONS \/ todo_indexes = {}
      THEN [index |-> candidate_idx, promoted |-> FALSE, rotation |-> NoRotation]
      ELSE [index |-> MinIndex(todo_indexes), promoted |-> TRUE,
            rotation |-> [type |-> "TASK_PLANNER_ROTATED",
                          from_task_id |-> tasks[candidate_idx].id,
                          to_task_id |-> tasks[MinIndex(todo_indexes)].id]]
    ELSE IF todo_indexes # {}
    THEN [index |-> MinIndex(todo_indexes), promoted |-> TRUE, rotation |-> NoRotation]
    ELSE [index |-> 0, promoted |-> FALSE, rotation |-> NoRotation]

\* _record_task_selection that leaves the other tasks' streaks alone
_record_task_selection_NoReset(tasks, selected_index) ==
    [i \in DOMAIN tasks |->
        IF i = selected_index
        THEN [tasks[i] EXCEPT !.selection_streak = _selection_streak(tasks[i]) + 1]
        ELSE tasks[i]]

_record_task_selection(tasks, selected_index) ==
    [i \in DOMAIN tasks |->
        IF i = selected_index
        THEN [tasks[i] EXCEPT !.selection_streak = _selection_streak(tasks[i]) + 1]
        ELSE IF tasks[i].selection_streak # 0
        THEN [tasks[i] EXCEPT !.selection_streak = 0]
        ELSE tasks[i]]

\* plan_work_order: the tasks after planning, the planner's events, the index
\* of the selected task (0 = none) and the kind of objective of the work order
plan_work_order(state, mission_text) ==
    LET refresh == _refresh_deferred_tasks(state.tasks)
        pick == _pick_task(refresh.tasks)
        promotedTasks ==
            IF pick.promoted /\ pick.index # 0
            THEN [refresh.tasks EXCEPT ![pick.index].status = "IN_PROGRESS"]
            ELSE refresh.tasks
        promoteEvents ==
            IF pick.promoted /\ pick.index # 0
            THEN << [type |-> "TASK_STATUS_CHANGED", task_id |-> refresh.tasks[pick.index].id,
                     from |-> "TODO", to |-> "IN_PROGRESS", reason |-> "planner"] >>
            ELSE <<>>
        rotationEvents == IF pick.rotation # NoRotation THEN << pick.rotation >> ELSE <<>>
        open_requests == {i \in DOMAIN state.hardware_requests :
                              state.hardware_requests[i].status \in PendingStatuses}
        objective ==
            IF pick.index # 0 THEN "advance_task"
            ELSE IF open_requests # {} THEN "hardware_pending"
            ELSE IF Strip(mission_text) = "" THEN "mission_unknown"
            ELSE "capability_roadmap"
    IN
    [tasks |-> _record_task_selection(promotedTasks, pick.index),
     events |-> refresh.events \o promoteEvents \o rotationEvents,
     task_index |-> pick.index,
     objective |-> objective]

-----------------------------------------------------------------------------
(* control/reducer.py *)

\* _next_id that does not look at the existing ids
_next_id_First(existing, prefix) == <<prefix, today, 1>>

\* _next_id: the first "<prefix>-<today>-NNN" that is not in existing
_next_id(existing, prefix) ==
    LET counter == CHOOSE n \in 1..(Cardinality(existing) + 1) :
                       /\ <<prefix, today, n>> \notin existing
                       /\ \A m \in 1..(n - 1) : <<prefix, today, m>> \in existing
    IN <<prefix, today, counter>>

IdsOf(items) == {items[i].id : i \in DOMAIN items}

TaskStatuses == {"TODO", "IN_PROGRESS", "DONE", "BLOCKED"}

\* one iteration of the loop of _append_proposed_tasks; acc carries the task
\* list, the events and the open_titles set
AppendProposedTask(acc, item) ==
    LET title == Strip(item.title)
        title_key == Lower(title)
    IN
    IF title = "" \/ title_key \in acc.open_titles
    THEN acc
    ELSE
      LET task_id == _next_id(IdsOf(acc.tasks), "task")
          status == IF item.status \in TaskStatuses THEN item.status ELSE "TODO"
          task == [id |-> task_id, title |-> title, status |-> status,
                   completed_on |-> IF status = "DONE" THEN today ELSE NoDate,
                   defer_until |-> NoDate, defer_reason |-> "", selection_streak |-> 0]
      IN [tasks |-> Append(acc.tasks, task),
          events |-> Append(acc.events, [type |-> "TASK_CREATED", task_id |-> task_id, title |-> title]),
          open_titles |-> acc.open_titles \cup {title_key}]

RECURSIVE FoldProposedTasks(_, _)
FoldProposedTasks(acc, proposed) ==
    IF proposed = <<>> THEN acc
    ELSE FoldProposedTasks(AppendProposedTask(acc, Head(proposed)), Tail(proposed))

\* _append_proposed_tasks whose open_titles also holds the titles of DONE tasks
_append_proposed_tasks_AllTitles(tasks, proposed_tasks) ==
    LET open_titles == {Lower(Strip(tasks[i].title)) : i \in DOMAIN tasks}
        r == FoldProposedTasks([tasks |-> tasks, events |-> <<>>, open_titles |-> open_titles], proposed_tasks)
    IN [tasks |-> r.tasks, events |-> r.events]

_append_proposed_tasks(tasks, proposed_tasks) ==
    LET open_titles == {Lower(Strip(tasks[i].title)) : i \in {j \in DOMAIN tasks : tasks[j].status # "DONE"}}
        r == FoldProposedTasks([tasks |-> tasks, events |-> <<>>, open_titles |-> open_titles], proposed_tasks)
    IN [tasks |-> r.tasks, events |-> r.events]

\* the status part of one task update (reducer.py lines 51-73)
UpdateTaskStatus(task, update) ==
    LET previous == task.status
        target == IF update.status # "" THEN update.status ELSE previous
    IN
    IF previous = target
    THEN [task |-> task, events |-> <<>>]
    ELSE
      LET t1 == [task EXCEPT !.status = target,
                             !.completed_on = IF target = "DONE" THEN today ELSE NoDate]
          t2 == IF target = "DONE"
                THEN [t1 EXCEPT !.defer_until = NoDate, !.defer_reason = "", !.selection_streak = 0]
                ELSE t1
      IN [task |-> t2,
          events |-> << [type |-> "TASK_STATUS_CHANGED", task_id |-> task.id,
                         from |-> previous, to |-> target, reason |-> "worker"] >>]

\* the defer_until part of one task update (reducer.py lines 75-115)
UpdateTaskDeferUntil(task, update) ==
    IF ~update.has_defer_until
    THEN [task |-> task, events |-> <<>>]
    ELSE
      LET previous_defer_until == task.defer_until
          raw_defer_until == update.defer_until
      IN
      IF raw_defer_until = NoDate
      THEN IF previous_defer_until # NoDate
           THEN [task |-> [task EXCEPT !.defer_until = NoDate, !.defer_reason = ""],
                 events |-> << [type |-> "TASK_DEFER_CLEARED", task_id |-> task.id] >>]
           ELSE [task |-> task, events |-> <<>>]
      ELSE
        LET parsed_defer_until == _parse_defer_date(raw_defer_until) IN
        IF parsed_defer_until = NoDate
        THEN [task |-> [task EXCEPT !.defer_until = NoDate, !.defer_reason = ""],
              events |-> << [type |-> "TASK_DEFER_INVALID", task_id |-> task.id] >>]
        ELSE IF previous_defer_until # parsed_defer_until
        THEN [task |-> [task EXCEPT !.defer_until = parsed_defer_until],
              events |-> << [type |-> "TASK_DEFER_SET", task_id |-> task.id,
                             defer_until |-> parsed_defer_until] >>]
        ELSE [task |-> task, events |-> <<>>]

\* the defer_reason part of one task update (reducer.py lines 117-123)
UpdateTaskDeferReason(task, update) ==
    IF ~update.has_defer_reason
    THEN task
    ELSE
      LET normalized_defer_reason ==
              IF task.defer_until # NoDate THEN Strip(update.defer_reason) ELSE ""
      IN IF task.defer_reason # normalized_defer_reason
         THEN [task EXCEPT !.defer_reason = normalized_defer_reason]
         ELSE task

\* by_id.get(task_id): the dict comprehension keeps the last task of an id
TaskIndexById(tasks, task_id) ==
    LET S == {i \in DOMAIN tasks : tasks[i].id = task_id} IN
    IF S = {} THEN 0 ELSE CHOOSE i \in S : \A j \in S : j <= i

\* one iteration of the loop of _upsert_task_updates
UpsertTaskUpdate(acc, update) ==
    LET idx == TaskIndexById(acc.tasks, update.task_id) IN
    IF idx = 0
    THEN acc
    ELSE
      LET s == UpdateTaskStatus(acc.tasks[idx], update)
          d == UpdateTaskDeferUntil(s.task, update)
          t == UpdateTaskDeferReason(d.task, update)
      IN [tasks |-> [acc.tasks EXCEPT ![idx] = t],
          events |-> acc.events \o s.events \o d.events]

RECURSIVE FoldTaskUpdates(_, _)
FoldTaskUpdates(acc, updates) ==
    IF updates = <<>> THEN acc
    ELSE FoldTaskUpdates(UpsertTaskUpdate(acc, Head(updates)), Tail(updates))

_upsert_task_updates(tasks, updates) ==
    FoldTaskUpdates([tasks |-> tasks, events |-> <<>>], updates)

\* AppendProposedHardware without open_name_keys.add(key)
AppendProposedHardware_KeyNotAdded(acc, item) ==
    LET name == Strip(item.name)
        key == Lower(name)
    IN
    IF name = "" \/ Strip(item.reason) = "" \/ Strip(item.detection.kind) = ""
       \/ Strip(item.detection.value) = ""
    THEN acc
    ELSE IF key \in acc.open_name_keys
    THEN acc
    ELSE
      LET request_id == _next_id(IdsOf(acc.requests), "hardware") IN
      [requests |-> Append(acc.requests,
                     [id |-> request_id, name |-> name, reason |-> Strip(item.reason),
                      status |-> "OPEN",
                      detection |-> [kind |-> Strip(item.detection.kind),
                                     value |-> Strip(item.detection.value)],
                      verify_command |-> item.verify_command,
                      last_checked_on |-> NoDate, detected_on |-> NoDate, verified_on |-> NoDate,
                      verify_failures |-> 0, notes |-> 0]),
       events |-> Append(acc.events, [type |-> "HARDWARE_REQUEST_CREATED",
                                      request_id |-> request_id, name |-> name]),
       open_name_keys |-> acc.open_name_keys]

\* one iteration of the loop of _append_proposed_hardware_requests; acc
\* carries the request list, the events and the open_name_keys set
AppendProposedHardware(acc, item) ==
    LET name == Strip(item.name)
        reason == Strip(item.reason)
        detection_kind == Strip(item.detection.kind)
        detection_value == Strip(item.detection.value)
        key == Lower(name)
    IN
    IF name = "" \/ reason = "" \/ detection_kind = "" \/ detection_value = ""
    THEN acc
    ELSE IF key \in acc.open_name_keys
    THEN acc
    ELSE
      LET request_id == _next_id(IdsOf(acc.requests), "hardware")
          request == [id |-> request_id, name |-> name, reason |-> reason, status |-> "OPEN",
                      detection |-> [kind |-> detection_kind, value |-> detection_value],
                      verify_command |-> item.verify_command,
                      last_checked_on |-> NoDate, detected_on |-> NoDate, verified_on |-> NoDate,
                      verify_failures |-> 0, notes |-> 0]
      IN [requests |-> Append(acc.requests, request),
          events |-> Append(acc.events, [type |-> "HARDWARE_REQUEST_CREATED",
                                         request_id |-> request_id, name |-> name]),
          open_name_keys |-> acc.open_name_keys \cup {key}]

RECURSIVE FoldProposedHardware(_, _)
FoldProposedHardware(acc, proposed) ==
    IF proposed = <<>> THEN acc
    ELSE FoldProposedHardware(AppendProposedHardware(acc, Head(proposed)), Tail(proposed))

\* _append_proposed_hardware_requests that starts from an empty open_name_keys
_append_proposed_hardware_requests_NoOpenKeys(requests, proposed) ==
    LET r == FoldProposedHardware([requests |-> requests, events |-> <<>>,
                                   open_name_keys |-> {}], proposed)
    IN [requests |-> r.requests, events |-> r.events]

_append_proposed_hardware_requests(requests, proposed) ==
    LET open_name_keys == {Lower(Strip(requests[i].name)) :
                              i \in {j \in DOMAIN requests : requests[j].status \in PendingStatuses}}
        r == FoldProposedHardware([requests |-> requests, events |-> <<>>,
                                   open_name_keys |-> open_name_keys], proposed)
    IN [requests |-> r.requests, events |-> r.events]

\* one iteration of the loop of _append_incidents
AppendIncident(acc, item) ==
    LET title == Strip(item.title)
        summary == Strip(item.summary)
        severity == IF item.severity \in {"LOW", "MEDIUM", "HIGH"} THEN item.severity ELSE "MEDIUM"
        status == IF item.status \in {"OPEN", "RESOLVED"} THEN item.status ELSE "OPEN"
    IN
    IF title = "" \/ summary = ""
    THEN acc
    ELSE
      LET incident_id == _next_id(IdsOf(acc.incidents), "incident") IN
      [incidents |-> Append(acc.incidents,
                            [id |-> incident_id, title |-> title, status |-> status,
                             severity |-> severity, summary |-> summary]),
       events |-> Append(acc.events, [type |-> "INCIDENT_CREATED", incident_id |-> incident_id,
                                      title |-> title, severity |-> severity])]

RECURSIVE FoldIncidents(_, _)
FoldIncidents(acc, proposed) ==
    IF proposed = <<>> THEN acc
    ELSE FoldIncidents(AppendIncident(acc, Head(proposed)), Tail(proposed))

_append_incidents(incidents, proposed) ==
    FoldIncidents([incidents |-> incidents, events |-> <<>>], proposed)

\* _derive_status that only counts OPEN requests as unverified
_derive_status_OpenOnly(requests, worker_status) ==
    IF worker_status = "FAILED" THEN "ERROR"
    ELSE IF \E i \in DOMAIN requests : requests[i].status = "OPEN"
    THEN "BLOCKED_HARDWARE"
    ELSE "ACTIVE"

_derive_status(requests, worker_status) ==
    IF worker_status = "FAILED" THEN "ERROR"
    ELSE IF \E i \in DOMAIN requests : requests[i].status \in PendingStatuses
    THEN "BLOCKED_HARDWARE"
    ELSE "ACTIVE"

\* apply_worker_result that re-derives the status only for a FAILED worker
apply_worker_result_KeepsStatus(state, worker_result) ==
    LET pt == _append_proposed_tasks(state.tasks, worker_result.proposed_tasks)
        tu == _upsert_task_updates(pt.tasks, worker_result.task_updates)
        hw == _append_proposed_hardware_requests(state.hardware_requests,
                                                 worker_result.proposed_hardware_requests)
        inc == _append_incidents(state.incidents, worker_result.incidents)
        becoming == Strip(worker_result.becoming)
        becomingChanged == becoming # "" /\ state.becoming # becoming
        becomingEvents ==
            IF becomingChanged
            THEN << [type |-> "BECOMING_UPDATED", from |-> state.becoming, to |-> becoming] >>
            ELSE <<>>
        summary == Strip(worker_result.summary)
        worker_status == IF worker_result.status # "" THEN worker_result.status ELSE "COMPLETED"
        failed == IF worker_status = "FAILED"
                  THEN _append_incidents(inc.incidents,
                           << [title |-> "Worker execution failed",
                               summary |-> IF summary # "" THEN summary
                                           ELSE "Worker returned FAILED status.",
                               severity |-> "HIGH", status |-> "OPEN"] >>)
                  ELSE [incidents |-> inc.incidents, events |-> <<>>]
    IN
    [state |-> [state EXCEPT
                    !.tasks = tu.tasks,
                    !.hardware_requests = hw.requests,
                    !.incidents = failed.incidents,
                    !.becoming = IF becomingChanged THEN becoming ELSE @,
                    !.last_summary = summary,
                    !.status = IF worker_status = "FAILED" THEN "ERROR" ELSE @],
     events |-> pt.events \o tu.events \o hw.events \o inc.events \o becomingEvents \o failed.events]

\* apply_worker_result: the new state and the reducer's events
apply_worker_result(state, worker_result) ==
    LET pt == _append_proposed_tasks(state.tasks, worker_result.proposed_tasks)
        tu == _upsert_task_updates(pt.tasks, worker_result.task_updates)
        hw == _append_proposed_hardware_requests(state.hardware_requests,
                                                 worker_result.proposed_hardware_requests)
        inc == _append_incidents(state.incidents, worker_result.incidents)
        becoming == Strip(worker_result.becoming)
        becomingChanged == becoming # "" /\ state.becoming # becoming
        becomingEvents ==
            IF becomingChanged
            THEN << [type |-> "BECOMING_UPDATED", from |-> state.becoming, to |-> becoming] >>
            ELSE <<>>
        summary == Strip(worker_result.summary)
        worker_status == IF worker_result.status # "" THEN worker_result.status ELSE "COMPLETED"
        failed == IF worker_status = "FAILED"
                  THEN _append_incidents(inc.incidents,
                           << [title |-> "Worker execution failed",
                               summary |-> IF summary # "" THEN summary
                                           ELSE "Worker returned FAILED status.",
                               severity |-> "HIGH", status |-> "OPEN"] >>)
                  ELSE [incidents |-> inc.incidents, events |-> <<>>]
    IN
    [state |-> [state EXCEPT
                    !.tasks = tu.tasks,
                    !.hardware_requests = hw.requests,
                    !.incidents = failed.incidents,
                    !.becoming = IF becomingChanged THEN becoming ELSE @,
                    !.last_summary = summary,
                    !.status = _derive_status(hw.requests, worker_status)],
     events |-> pt.events \o tu.events \o hw.events \o inc.events \o becomingEvents \o failed.events]

-----------------------------------------------------------------------------
(* control/human_messages.py *)

NoFile == [exists |-> FALSE, lines |-> <<>>]

\* enqueue_human_message writes "ts=<now>\n<cleaned>\n"
MessageFile(text) == [exists |-> TRUE, lines |-> << "ts=", Strip(text) >>]

\* a load that keeps the ts= header line
load_and_clear_human_message_KeepsHeader(file) ==
    IF ~file.exists THEN "" ELSE Strip(Head(file.lines))

\* load_and_clear_human_message: the text returned (the file is unlinked)
load_and_clear_human_message(file) ==
    IF ~file.exists THEN ""
    ELSE
      LET lines == IF file.lines # <<>> /\ Head(file.lines) = "ts=" THEN Tail(file.lines) ELSE file.lines
      IN IF lines = <<>> THEN "" ELSE Strip(Head(lines))

TerminateMarkers ==
    {"terminate", "shutdown", "shut down", "power down", "stop this device",
     "stop device", "kill command", "kill wdib", "goodbye"}

is_terminate_command(message_text) ==
    LET lowered == Lower(Strip(message_text)) IN
    IF lowered = "" THEN FALSE
    ELSE Substrings(lowered) \cap TerminateMarkers # {}

-----------------------------------------------------------------------------
(* storage/repository.py *)

default_state ==
    [day |-> 0, status |-> "ACTIVE", becoming |-> "", tasks |-> <<>>,
     hardware_requests |-> <<>>, incidents |-> <<>>, last_summary |-> ""]

\* save_session_record whose file name is <date>.json
save_session_record_ByDate(sess, payload) ==
    {r \in sess : r.date # payload.date} \cup {payload}

\* save_session_record: the file name is day_<day>_<date>.json, so a record
\* of the same day and date is overwritten
save_session_record(sess, payload) ==
    {r \in sess : ~(r.day = payload.day /\ r.date = payload.date)} \cup {payload}

NoFiles ==
    [sessions |-> {}, work_orders |-> {}, worker_results |-> {},
     public_status |-> 0, public_daily |-> {}]

-----------------------------------------------------------------------------
(* adapters/git_repo.py *)

\* the parameters of commit_device_changes and the arguments run_tick passes
CommitParameters == {"device_id", "day", "status"}
CommitArguments == {"device_id", "day", "status", "publish_paths"}

\* a call with a keyword the function does not declare raises TypeError
commit_device_changes_raises == ~(CommitArguments \subseteq CommitParameters)

\* what the git commands of commit_device_changes do in one call
GitOutcomes == {"pushed", "unchanged", "add_failed", "commit_failed", "push_failed"}

\* the body of commit_device_changes: git add, diff and commit run with
\* check=True and raise CalledProcessError; a failed push is reported
commit_device_changes(git) ==
    CASE git \in {"add_failed", "commit_failed"} ->
            [raises |-> TRUE, committed |-> FALSE, pushed |-> FALSE]
      [] git = "unchanged" -> [raises |-> FALSE, committed |-> FALSE, pushed |-> FALSE]
      [] git = "push_failed" -> [raises |-> FALSE, committed |-> TRUE, pushed |-> FALSE]
      [] OTHER -> [raises |-> FALSE, committed |-> TRUE, pushed |-> TRUE]

-----------------------------------------------------------------------------
(* notifications/router.py *)

_PROVIDERS == {"slack"}

NoChannels == <<>>

\* what the slack provider does in one call: it posts, gets a refusal, raises,
\* or has no webhook URL
SlackDeliveries == {"sent", "rejected", "raised", "unconfigured"}

\* one iteration of the loop of _configured_channel_names
AddChannelName(names, part) ==
    LET name == Lower(Strip(part)) IN
    IF name # "" /\ name \notin Range(names) THEN Append(names, name) ELSE names

RECURSIVE FoldChannelNames(_, _)
FoldChannelNames(names, parts) ==
    IF parts = <<>> THEN names
    ELSE FoldChannelNames(AddChannelName(names, Head(parts)), Tail(parts))

\* _configured_channel_names that keeps repeated names
_configured_channel_names_KeepsRepeats(parts) ==
    SelectSeq([i \in DOMAIN parts |-> Lower(Strip(parts[i]))], LAMBDA name : name # "")

\* _configured_channel_names: the stripped, lower-cased, non-empty parts of
\* WDIB_NOTIFICATION_CHANNELS, each name once, in order of first appearance
_configured_channel_names(parts) == FoldChannelNames(<<>>, parts)

\* the deliveries one notification call can meet
Deliveries(parts) ==
    IF \E name \in Range(_configured_channel_names(parts)) : name \in _PROVIDERS
    THEN SlackDeliveries ELSE {"none"}

\* one iteration of the loop of send_cycle_notifications and of
\* send_failure_notifications
NotifyChannel(channel, delivery) ==
    IF channel \notin _PROVIDERS
    THEN [channel |-> channel, sent |-> FALSE, reason |-> "channel is not registered"]
    ELSE IF delivery = "unconfigured"
    THEN [channel |-> channel, sent |-> FALSE, reason |-> "channel is not configured"]
    ELSE IF delivery = "raised"
    THEN [channel |-> channel, sent |-> FALSE, reason |-> "channel notify failed"]
    ELSE IF delivery = "rejected"
    THEN [channel |-> channel, sent |-> FALSE, reason |-> "webhook request failed"]
    ELSE [channel |-> channel, sent |-> TRUE, reason |-> ""]

send_cycle_notifications(parts, delivery) ==
    LET names == _configured_channel_names(parts) IN
    [i \in DOMAIN names |-> NotifyChannel(names[i], delivery)]

send_failure_notifications(parts, delivery) ==
    LET names == _configured_channel_names(parts) IN
    [i \in DOMAIN names |-> NotifyChannel(names[i], delivery)]

-----------------------------------------------------------------------------
(* runtime.py *)

_META_BECOMING_MARKERS ==
    {"wdib", "control-plane", "control plane", "worker_result", "schema",
     "task machinery", "verified tasks", "runtime reliability", "autonomous loop"}

_MISSION_DISCOVERY_MIN_DAY_FOR_BECOMING == 3

ClosingBecoming == "Gracefully conclude this mission run and hand over cleanly."

_looks_framework_internal_becoming(text) ==
    LET value == Lower(Strip(text)) IN
    IF value = "" THEN FALSE
    ELSE Substrings(value) \cap _META_BECOMING_MARKERS # {}

_mission_unknown(mission_text) == Strip(mission_text) = ""

NoEvent == <<>>

\* _clear_becoming_from_state_when_mission_unknown without the marker check
_clear_becoming_from_state_when_mission_unknown_DayOnly(state, mission_text) ==
    LET existing == Strip(state.becoming) IN
    IF Strip(mission_text) # "" THEN [state |-> state, events |-> NoEvent]
    ELSE IF existing = "" THEN [state |-> state, events |-> NoEvent]
    ELSE IF state.day < _MISSION_DISCOVERY_MIN_DAY_FOR_BECOMING
    THEN [state |-> [state EXCEPT !.becoming = ""],
          events |-> << [type |-> "BECOMING_CLEARED", from |-> existing, reason |-> "discovery"] >>]
    ELSE [state |-> state, events |-> NoEvent]

_clear_becoming_from_state_when_mission_unknown(state, mission_text) ==
    LET existing == Strip(state.becoming) IN
    IF Strip(mission_text) # "" THEN [state |-> state, events |-> NoEvent]
    ELSE IF existing = "" THEN [state |-> state, events |-> NoEvent]
    ELSE IF state.day < _MISSION_DISCOVERY_MIN_DAY_FOR_BECOMING
    THEN [state |-> [state EXCEPT !.becoming = ""],
          events |-> << [type |-> "BECOMING_CLEARED", from |-> existing, reason |-> "discovery"] >>]
    ELSE IF ~_looks_framework_internal_becoming(existing)
    THEN [state |-> state, events |-> NoEvent]
    ELSE [state |-> [state EXCEPT !.becoming = ""],
          events |-> << [type |-> "BECOMING_CLEARED", from |-> existing, reason |-> "framework"] >>]

\* _reject_becoming_when_mission_unknown without the discovery-day check
_reject_becoming_when_mission_unknown_NoDayCheck(worker_result, mission_text, day) ==
    LET candidate == Strip(worker_result.becoming) IN
    IF Strip(mission_text) # "" THEN [worker_result |-> worker_result, events |-> NoEvent]
    ELSE IF candidate = "" THEN [worker_result |-> worker_result, events |-> NoEvent]
    ELSE IF _looks_framework_internal_becoming(candidate)
    THEN [worker_result |-> [worker_result EXCEPT !.becoming = ""],
          events |-> << [type |-> "BECOMING_REJECTED", candidate |-> candidate, reason |-> "framework"] >>]
    ELSE [worker_result |-> worker_result, events |-> NoEvent]

\* _reject_becoming_when_mission_unknown that reports a rejection but leaves
\* the field in the worker result
_reject_becoming_when_mission_unknown_KeepsField(worker_result, mission_text, day) ==
    LET candidate == Strip(worker_result.becoming) IN
    IF Strip(mission_text) # "" THEN [worker_result |-> worker_result, events |-> NoEvent]
    ELSE IF candidate = "" THEN [worker_result |-> worker_result, events |-> NoEvent]
    ELSE IF _looks_framework_internal_becoming(candidate)
    THEN [worker_result |-> worker_result,
          events |-> << [type |-> "BECOMING_REJECTED", candidate |-> candidate, reason |-> "framework"] >>]
    ELSE IF day < _MISSION_DISCOVERY_MIN_DAY_FOR_BECOMING
    THEN [worker_result |-> worker_result,
          events |-> << [type |-> "BECOMING_REJECTED", candidate |-> candidate, reason |-> "too_early"] >>]
    ELSE [worker_result |-> worker_result, events |-> NoEvent]

_reject_becoming_when_mission_unknown(worker_result, mission_text, day) ==
    LET candidate == Strip(worker_result.becoming) IN
    IF Strip(mission_text) # "" THEN [worker_result |-> worker_result, events |-> NoEvent]
    ELSE IF candidate = "" THEN [worker_result |-> worker_result, events |-> NoEvent]
    ELSE IF _looks_framework_internal_becoming(candidate)
    THEN [worker_result |-> [worker_result EXCEPT !.becoming = ""],
          events |-> << [type |-> "BECOMING_REJECTED", candidate |-> candidate, reason |-> "framework"] >>]
    ELSE IF day < _MISSION_DISCOVERY_MIN_DAY_FOR_BECOMING
    THEN [worker_result |-> [worker_result EXCEPT !.becoming = ""],
          events |-> << [type |-> "BECOMING_REJECTED", candidate |-> candidate, reason |-> "too_early"] >>]
    ELSE [worker_result |-> worker_result, events |-> NoEvent]

\* _next_incident_id that does not look at the existing ids
_next_incident_id_First(state) == <<"incident", today, 1>>

_next_incident_id(state) ==
    LET existing == IdsOf(state.incidents)
        counter == CHOOSE n \in 1..(Cardinality(existing) + 1) :
                       /\ <<"incident", today, n>> \notin existing
                       /\ \A m \in 1..(n - 1) : <<"incident", today, m>> \in existing
    IN <<"incident", today, counter>>

\* _record_runtime_failure that also resets the cycle counter
_record_runtime_failure_ResetsDay(state, message) ==
    [state EXCEPT
        !.day = 0,
        !.status = "ERROR",
        !.incidents = Append(@, [id |-> _next_incident_id(state), title |-> "WDIB runtime failure",
                                 status |-> "OPEN", severity |-> "HIGH", summary |-> message]),
        !.last_summary = message]

_record_runtime_failure(state, message) ==
    [state EXCEPT
        !.status = "ERROR",
        !.incidents = Append(@, [id |-> _next_incident_id(state), title |-> "WDIB runtime failure",
                                 status |-> "OPEN", severity |-> "HIGH", summary |-> message]),
        !.last_summary = message]

_append_notification_events(cycle_id, day, results) ==
    [i \in DOMAIN results |->
        IF results[i].sent
        THEN [type |-> "NOTIFICATION_SENT", cycle_id |-> cycle_id, day |-> day,
              channel |-> results[i].channel]
        ELSE [type |-> "NOTIFICATION_FAILED", cycle_id |-> cycle_id, day |-> day,
              channel |-> results[i].channel, reason |-> results[i].reason]]

-----------------------------------------------------------------------------
(* Inputs: what the worker, the operator and the hardware can supply *)

EmptyResult ==
    [status |-> "COMPLETED", summary |-> "ok", becoming |-> "",
     proposed_tasks |-> <<>>, task_updates |-> <<>>,
     proposed_hardware_requests |-> <<>>, incidents |-> <<>>]

TaskProposalLists ==
    { << [title |-> "Fix WiFi", status |-> "IN_PROGRESS"], [title |-> "Scan Room", status |-> ""] >>,
      << [title |-> "fix wifi ", status |-> "TODO"] >>,
      << [title |-> "Scan Room", status |-> "DONE"], [title |-> "  ", status |-> "TODO"] >> }

TaskUpdateShapes ==
    { [status |-> "DONE", has_defer_until |-> FALSE, defer_until |-> NoDate,
       has_defer_reason |-> FALSE, defer_reason |-> ""],
      [status |-> "DONE", has_defer_until |-> TRUE, defer_until |-> Tomorrow0,
       has_defer_reason |-> TRUE, defer_reason |-> "later"],
      [status |-> "", has_defer_until |-> TRUE, defer_until |-> Tomorrow0,
       has_defer_reason |-> TRUE, defer_reason |-> "later"],
      [status |-> "", has_defer_until |-> TRUE, defer_until |-> BadDate,
       has_defer_reason |-> FALSE, defer_reason |-> ""],
      [status |-> "TODO", has_defer_until |-> TRUE, defer_until |-> NoDate,
       has_defer_reason |-> FALSE, defer_reason |-> ""],
      [status |-> "IN_PROGRESS", has_defer_until |-> FALSE, defer_until |-> NoDate,
       has_defer_reason |-> FALSE, defer_reason |-> ""] }

TaskUpdateLists(state) ==
    { << [task_id |-> id, status |-> sh.status,
          has_defer_until |-> sh.has_defer_until, defer_until |-> sh.defer_until,
          has_defer_reason |-> sh.has_defer_reason, defer_reason |-> sh.defer_reason] >> :
        id \in IdsOf(state.tasks), sh \in TaskUpdateShapes }

Camera(name) ==
    [name |-> name, reason |-> "need vision",
     detection |-> [kind |-> "glob_exists", value |-> "/dev/video*"], verify_command |-> "v4l2-ctl --all"]

HardwareProposalLists ==
    { << Camera("USB Camera"), Camera(" usb camera ") >>,
      << Camera("usb camera") >>,
      << [name |-> "Mic", reason |-> "need audio",
          detection |-> [kind |-> "lsusb_contains", value |-> "audio"], verify_command |-> ""] >>,
      << [name |-> "Mic", reason |-> "  ",
          detection |-> [kind |-> "lsusb_contains", value |-> "audio"], verify_command |-> ""] >> }

\* a result that proposes the same title twice
RepeatedProposals ==
    { << [title |-> "Fix WiFi", status |-> "TODO"], [title |-> "fix wifi ", status |-> "TODO"] >> }

\* a result that appends several items to each list
SeveralTasks ==
    << [title |-> "Fix WiFi", status |-> "IN_PROGRESS"], [title |-> "Scan Room", status |-> ""] >>

SeveralRequests ==
    << Camera("USB Camera"),
       [name |-> "Mic", reason |-> "need audio",
        detection |-> [kind |-> "lsusb_contains", value |-> "audio"], verify_command |-> ""] >>

IncidentProposals ==
    << [title |-> "Low disk", summary |-> "disk is 95% full", severity |-> "LOW", status |-> "OPEN"],
       [title |-> "Hot CPU", summary |-> "cpu at 85C", severity |-> "", status |-> ""] >>

\* the worker results of a family, for a worker that has seen state
WorkerResults(family, state) ==
    CASE family = "tasks" ->
            {EmptyResult}
            \cup {[EmptyResult EXCEPT !.proposed_tasks = p] :
                    p \in {q \in TaskProposalLists : Len(state.tasks) + Len(q) <= MaxTasks}}
            \cup {[EmptyResult EXCEPT !.task_updates = u] : u \in TaskUpdateLists(state)}
      [] family = "hardware" ->
            {EmptyResult, [EmptyResult EXCEPT !.status = "FAILED", !.summary = "Build failed"]}
            \cup {[EmptyResult EXCEPT !.proposed_hardware_requests = p] :
                    p \in {q \in HardwareProposalLists :
                              Len(state.hardware_requests) + Len(q) <= MaxHardware}}
      [] family = "plain" ->
            {EmptyResult, [EmptyResult EXCEPT !.status = "FAILED", !.summary = "Build failed"]}
      [] family = "proposals" ->
            {[EmptyResult EXCEPT !.proposed_tasks = p] :
                p \in {q \in TaskProposalLists \cup RepeatedProposals :
                          Len(_append_proposed_tasks(state.tasks, q).tasks) <= MaxTasks}}
      [] family = "ids" ->
            {EmptyResult}
            \cup {[EmptyResult EXCEPT !.status = st, !.incidents = IncidentProposals] :
                    st \in {"COMPLETED", "FAILED"}}
            \cup (IF /\ Len(state.tasks) + Len(SeveralTasks) <= MaxTasks
                     /\ Len(state.hardware_requests) + Len(SeveralRequests) <= MaxHardware
                  THEN {[EmptyResult EXCEPT !.status = st,
                                            !.proposed_tasks = SeveralTasks,
                                            !.proposed_hardware_requests = SeveralRequests,
                                            !.incidents = IncidentProposals] :
                           st \in {"COMPLETED", "FAILED"}}
                  ELSE {})
      [] family = "cycle" ->
            {EmptyResult}
            \cup {[EmptyResult EXCEPT !.becoming = "Help keep the beach clean.",
                                      !.task_updates = u,
                                      !.incidents = IncidentProposals] :
                    u \in {q \in TaskUpdateLists(state) :
                              q[1].status = "DONE" /\ ~q[1].has_defer_until}}
      [] OTHER ->
            {[EmptyResult EXCEPT !.status = st, !.becoming = b] :
                st \in {"COMPLETED", "FAILED"},
                b \in {"", "Become a reliable autonomous WDIB loop.", "Help keep the beach clean."}}
            \cup {[EmptyResult EXCEPT !.status = "BLOCKED",
                                      !.proposed_hardware_requests = << Camera("USB Camera") >>,
                                      !.incidents = << [title |-> "Low disk", summary |-> "disk is 95% full",
                                                        severity |-> "LOW", status |-> "OPEN"] >>]}

\* the texts given to `wdib message --text`: the last two are padded and blank
Messages ==
    {"Please terminate this device now.", "Shutdown and GOODBYE", "Continue with normal work",
     "  Continue with normal work \n", "  "}

Signals == [detected : BOOLEAN, verify_ok : BOOLEAN]

NoSignal == [detected |-> FALSE, verify_ok |-> FALSE]

\* the signals of one reconciler pass: only pending requests are probed
SignalAssignments(requests) ==
    {sigs \in [DOMAIN requests -> Signals] :
        \A i \in DOMAIN requests :
            /\ requests[i].status \notin PendingStatuses => sigs[i] = NoSignal
            /\ ~sigs[i].detected => ~sigs[i].verify_ok}

-----------------------------------------------------------------------------
(* run_tick, runtime.py lines 197-488 *)

NoCur ==
    [day |-> 0, cycle_id |-> <<0, 0>>, message |-> "", worker_result |-> EmptyResult,
     task_index |-> 0, objective |-> "", rotated |-> FALSE, loaded |-> default_state,
     signals |-> <<>>, verify_runs |-> <<>>, proposed_becoming |-> ""]

NoOut ==
    [kind |-> "none", notify |-> "none", day |-> 0, git |-> "not_run", delivery |-> "none",
     notifications |-> <<>>]

\* lines 204-220: pre-cycle becoming policy and the inbox
Preamble ==
    LET pre == _clear_becoming_from_state_when_mission_unknown(disk, mission)
        message == load_and_clear_human_message(inbox)
    IN [state |-> pre.state,
        saved |-> pre.events # NoEvent,
        message |-> message,
        events |-> pre.events \o
                   (IF message # "" THEN << [type |-> "HUMAN_MESSAGE_RECEIVED", message |-> message] >>
                    ELSE <<>>)]

\* an except clause that also commits the day of the failed cycle
FailCycle_CountsDay(state, message, delivery) ==
    LET results == send_failure_notifications(channels, delivery) IN
    [state |-> [_record_runtime_failure(state, message) EXCEPT !.day = cur.day],
     events |-> << [type |-> "CYCLE_FAILED", cycle_id |-> cur.cycle_id, day |-> cur.day,
                    error |-> message] >>
                \o _append_notification_events(cur.cycle_id, cur.day, results),
     out |-> [kind |-> "raised", notify |-> "failure", day |-> cur.day, git |-> "not_run",
              delivery |-> delivery,
              notifications |-> results]]

\* lines 469-488: the except clause of run_tick
FailCycle(state, message, delivery) ==
    LET results == send_failure_notifications(channels, delivery) IN
    [state |-> _record_runtime_failure(state, message),
     events |-> << [type |-> "CYCLE_FAILED", cycle_id |-> cur.cycle_id, day |-> cur.day,
                    error |-> message] >>
                \o _append_notification_events(cur.cycle_id, cur.day, results),
     out |-> [kind |-> "raised", notify |-> "failure", day |-> cur.day, git |-> "not_run",
              delivery |-> delivery,
              notifications |-> results]]

\* lines 432-467 (302-338 on termination): the git commit, CYCLE_COMPLETED and
\* the cycle notifications, or the except clause when the commit raises
CommitAndNotify(state, kind, git, delivery) ==
    LET results == send_cycle_notifications(channels, delivery) IN
    IF commit_device_changes_raises
    THEN FailCycle(state, "TypeError: unexpected keyword argument publish_paths", delivery)
    ELSE IF commit_device_changes(git).raises
    THEN [FailCycle(state, "CalledProcessError: git", delivery) EXCEPT !.out.git = git]
    ELSE [state |-> state,
          events |-> << [type |-> "CYCLE_COMPLETED", cycle_id |-> cur.cycle_id,
                         day |-> cur.day, status |-> state.status] >>
                     \o _append_notification_events(cur.cycle_id, cur.day, results),
          out |-> [kind |-> kind, notify |-> "cycle", day |-> cur.day, git |-> git,
                   delivery |-> delivery,
                   notifications |-> results]]

\* a skip test that does not look at the inbox
SkipsTick_IgnoresInbox(p) == p.state.status = "TERMINATED"

\* line 222: the tick is skipped
SkipsTick_Inverted(p) == p.state.status = "TERMINATED" /\ p.message # ""

SkipsTick(p) == p.state.status = "TERMINATED" /\ p.message = ""

\* lines 222-228: a terminated device with an empty inbox skips the tick
TickSkipped(limit) ==
    /\ pc = "idle"
    /\ ticks < limit
    /\ LET p == Preamble IN
       /\ SkipsTick(p)
       /\ mem' = p.state
       /\ disk' = IF p.saved THEN p.state ELSE disk
       /\ events' = events \o p.events
       /\ out' = [NoOut EXCEPT !.kind = "skipped"]
    /\ inbox' = NoFile
    /\ ticks' = ticks + 1
    /\ cur' = NoCur
    /\ UNCHANGED <<today, mission, channels, files, pc>>

\* lines 198-248: the tick starts a cycle
TickStart(limit) ==
    /\ pc = "idle"
    /\ ticks < limit
    /\ LET p == Preamble
           day == p.state.day + 1
           cycle_id == <<day, ticks + 1>>
       IN
       /\ ~SkipsTick(p)
       /\ mem' = p.state
       /\ disk' = IF p.saved THEN p.state ELSE disk
       /\ events' = events \o p.events
                    \o << [type |-> "CYCLE_STARTED", cycle_id |-> cycle_id, day |-> day,
                           status |-> p.state.status] >>
                    \o (IF _mission_unknown(mission)
                        THEN << [type |-> "MISSION_UNKNOWN", cycle_id |-> cycle_id, day |-> day] >>
                        ELSE <<>>)
       /\ cur' = [NoCur EXCEPT !.day = day, !.cycle_id = cycle_id, !.message = p.message,
                                !.loaded = disk]
    /\ inbox' = NoFile
    /\ ticks' = ticks + 1
    /\ pc' = "started"
    /\ out' = NoOut
    /\ UNCHANGED <<today, mission, channels, files>>

\* lines 251-338: the human asked to terminate
Terminate ==
    /\ pc = "started"
    /\ cur.message # "" /\ is_terminate_command(cur.message)
    /\ LET state == [mem EXCEPT !.status = "TERMINATED", !.day = cur.day,
                                !.becoming = ClosingBecoming,
                                !.last_summary = "Received human termination instruction"]
           terminateEvent == [type |-> "HUMAN_COMMAND_TERMINATE", cycle_id |-> cur.cycle_id,
                              day |-> cur.day, message |-> cur.message]
           session_payload == [day |-> cur.day, date |-> today, cycle_id |-> cur.cycle_id,
                               status |-> state.status, worker_status |-> "TERMINATED"]
       IN
       /\ files' = [files EXCEPT !.sessions = save_session_record(@, session_payload),
                                 !.public_status = cur.day,
                                 !.public_daily = @ \cup {<<cur.day, today>>}]
       /\ \E git \in GitOutcomes, delivery \in Deliveries(channels) :
             LET done == CommitAndNotify(state, "terminated", git, delivery) IN
             /\ mem' = done.state
             /\ disk' = done.state
             /\ events' = events \o << terminateEvent >> \o done.events
             /\ out' = done.out
    /\ pc' = "idle"
    /\ UNCHANGED <<today, mission, channels, inbox, cur, ticks>>

\* lines 340-343: the hardware reconciler pass
ProbeHardware ==
    /\ pc = "started"
    /\ ~(cur.message # "" /\ is_terminate_command(cur.message))
    /\ \E sigs \in SignalAssignments(mem.hardware_requests) :
          LET probe == probe_hardware_requests(mem.hardware_requests, sigs) IN
          /\ mem' = [mem EXCEPT !.hardware_requests = probe.requests]
          /\ events' = events \o Stamp(probe.events, cur.cycle_id)
          /\ cur' = [cur EXCEPT !.signals = sigs, !.verify_runs = probe.verify_runs]
    /\ pc' = "probed"
    /\ UNCHANGED <<today, mission, channels, disk, inbox, files, out, ticks>>

\* a planning step that writes no work order file
Plan_WritesNoWorkOrder ==
    /\ pc = "probed"
    /\ LET plan == plan_work_order(mem, mission) IN
       /\ mem' = [mem EXCEPT !.tasks = plan.tasks]
       /\ disk' = [mem EXCEPT !.tasks = plan.tasks]
       /\ events' = events \o Stamp(plan.events, cur.cycle_id)
       /\ cur' = [cur EXCEPT !.task_index = plan.task_index, !.objective = plan.objective,
                             !.rotated = \E i \in DOMAIN plan.events :
                                             plan.events[i].type = "TASK_PLANNER_ROTATED"]
    /\ pc' = "planned"
    /\ UNCHANGED <<today, mission, channels, inbox, files, out, ticks>>

\* lines 345-365: the planner, the work order file and save_state
Plan ==
    /\ pc = "probed"
    /\ LET plan == plan_work_order(mem, mission) IN
       /\ mem' = [mem EXCEPT !.tasks = plan.tasks]
       /\ disk' = [mem EXCEPT !.tasks = plan.tasks]
       /\ events' = events \o Stamp(plan.events, cur.cycle_id)
       /\ cur' = [cur EXCEPT !.task_index = plan.task_index, !.objective = plan.objective,
                             !.rotated = \E i \in DOMAIN plan.events :
                                             plan.events[i].type = "TASK_PLANNER_ROTATED"]
    /\ files' = [files EXCEPT !.work_orders = @ \cup {cur.cycle_id}]
    /\ pc' = "planned"
    /\ UNCHANGED <<today, mission, channels, inbox, out, ticks>>

\* a worker step that appends WORKER_EXECUTED before the rejection event
Worker_RejectsAfterExecuted(family) ==
    /\ pc = "planned"
    /\ \/ \E result \in WorkerResults(family, mem) :
            LET rej == _reject_becoming_when_mission_unknown(result, mission, cur.day) IN
            /\ cur' = [cur EXCEPT !.worker_result = rej.worker_result,
                                  !.proposed_becoming = result.becoming]
            /\ events' = events \o << [type |-> "WORKER_EXECUTED", cycle_id |-> cur.cycle_id] >>
                         \o Stamp(rej.events, cur.cycle_id)
            /\ files' = [files EXCEPT !.worker_results = @ \cup {cur.cycle_id}]
            /\ pc' = "worked"
            /\ UNCHANGED <<mem, disk, out>>
       \/ \E delivery \in Deliveries(channels) :
            LET failure == FailCycle(mem, "codex exec failed", delivery) IN
            /\ mem' = failure.state
            /\ disk' = failure.state
            /\ events' = events \o failure.events
            /\ out' = failure.out
            /\ pc' = "idle"
            /\ UNCHANGED <<cur, files>>
    /\ UNCHANGED <<today, mission, channels, inbox, ticks>>

\* lines 367-390, 469-488: the worker adapter returns a result or raises
Worker(family) ==
    /\ pc = "planned"
    /\ \/ \E result \in WorkerResults(family, mem) :
            LET rej == _reject_becoming_when_mission_unknown(result, mission, cur.day) IN
            /\ cur' = [cur EXCEPT !.worker_result = rej.worker_result,
                                  !.proposed_becoming = result.becoming]
            /\ events' = events \o Stamp(rej.events, cur.cycle_id)
                         \o << [type |-> "WORKER_EXECUTED", cycle_id |-> cur.cycle_id] >>
            /\ files' = [files EXCEPT !.worker_results = @ \cup {cur.cycle_id}]
            /\ pc' = "worked"
            /\ UNCHANGED <<mem, disk, out>>
       \/ \E delivery \in Deliveries(channels) :
            LET failure == FailCycle(mem, "codex exec failed", delivery) IN
            /\ mem' = failure.state
            /\ disk' = failure.state
            /\ events' = events \o failure.events
            /\ out' = failure.out
            /\ pc' = "idle"
            /\ UNCHANGED <<cur, files>>
    /\ UNCHANGED <<today, mission, channels, inbox, ticks>>

\* a reducer step whose events replace the log instead of being appended
Reduce_RewritesLog ==
    /\ pc = "worked"
    /\ LET red == apply_worker_result(mem, cur.worker_result)
           state == [red.state EXCEPT !.day = cur.day]
       IN
       /\ mem' = state
       /\ disk' = state
       /\ events' = Stamp(red.events, cur.cycle_id)
    /\ pc' = "reduced"
    /\ UNCHANGED <<today, mission, channels, inbox, files, cur, out, ticks>>

\* lines 392-398: the reducer and save_state
Reduce ==
    /\ pc = "worked"
    /\ LET red == apply_worker_result(mem, cur.worker_result)
           state == [red.state EXCEPT !.day = cur.day]
       IN
       /\ mem' = state
       /\ disk' = state
       /\ events' = events \o Stamp(red.events, cur.cycle_id)
    /\ pc' = "reduced"
    /\ UNCHANGED <<today, mission, channels, inbox, files, cur, out, ticks>>

\* lines 392-397, 469-471: save_state raises after the reducer (the state does
\* not validate or the file cannot be written) and raises again in the except
\* clause, before CYCLE_FAILED is appended; the exception leaves run_tick
ReduceSaveRaises ==
    /\ pc = "worked"
    /\ LET red == apply_worker_result(mem, cur.worker_result)
           state == [red.state EXCEPT !.day = cur.day]
       IN
       /\ mem' = _record_runtime_failure(state, "state failed contract validation")
       /\ events' = events \o Stamp(red.events, cur.cycle_id)
    /\ out' = [NoOut EXCEPT !.kind = "raised", !.day = cur.day]
    /\ pc' = "idle"
    /\ UNCHANGED <<today, mission, channels, disk, inbox, files, cur, ticks>>

\* lines 400-467, 469-488: publication, git commit, notifications
Finish ==
    /\ pc = "reduced"
    /\ LET session_payload == [day |-> cur.day, date |-> today, cycle_id |-> cur.cycle_id,
                               status |-> mem.status, worker_status |-> cur.worker_result.status]
       IN
       /\ files' = [files EXCEPT !.sessions = save_session_record(@, session_payload),
                                 !.public_status = cur.day,
                                 !.public_daily = @ \cup {<<cur.day, today>>}]
       /\ \E git \in GitOutcomes, delivery \in Deliveries(channels) :
             LET done == CommitAndNotify(mem, "completed", git, delivery) IN
             /\ mem' = done.state
             /\ disk' = done.state
             /\ events' = events \o done.events
             /\ out' = done.out
    /\ pc' = "idle"
    /\ UNCHANGED <<today, mission, channels, inbox, cur, ticks>>

\* cli.py `message`: enqueue_human_message between two ticks; a blank text
\* raises ValueError and write_text replaces a message that is still pending
Enqueue(limit) ==
    /\ pc = "idle"
    /\ ticks < limit
    /\ \E text \in Messages :
          /\ Strip(text) # ""
          /\ inbox' = MessageFile(text)
    /\ UNCHANGED <<today, mission, channels, disk, mem, events, files, pc, cur, out, ticks>>

-----------------------------------------------------------------------------
(* Specifications *)

MissionTexts == {"", "## Mission: keep the beach clean"}

\* a state.json left by a termination cycle of day d (runtime.py lines 252-259)
TerminatedState(d) ==
    [default_state EXCEPT !.status = "TERMINATED", !.day = d, !.becoming = ClosingBecoming,
                          !.last_summary = "Received human termination instruction"]

\* a state.json written by an earlier release, whose becoming is about the
\* framework itself
LegacyState ==
    [default_state EXCEPT !.day = 3, !.becoming = "Become a reliable autonomous WDIB loop."]

\* the values of WDIB_NOTIFICATION_CHANNELS, split at the commas: unset, the
\* slack provider, an unregistered name before it, and a value that repeats a
\* name in another case and ends with a comma
ChannelConfigs ==
    {NoChannels, << "slack" >>, << "pager", "slack" >>, << "Slack", "pager", "slack", "" >>}

\* load_state: state.json is the default template or an earlier run's file
InitFull(missions, states, configs) ==
    /\ today = Today0
    /\ mission \in missions
    /\ channels \in configs
    /\ disk \in states
    /\ mem = disk
    /\ inbox = NoFile
    /\ events = << [type |-> "STATE_INITIALIZED"] >>
    /\ files = NoFiles
    /\ pc = "idle"
    /\ cur = NoCur
    /\ out = NoOut
    /\ ticks = 0

\* a device without notification channels
InitWith(missions, states) == InitFull(missions, states, {NoChannels})

Init == InitWith(MissionTexts, {default_state, TerminatedState(1), TerminatedState(3), LegacyState})

Next ==
    \/ TickSkipped(MaxCycles)
    \/ TickStart(MaxCycles)
    \/ Terminate
    \/ ProbeHardware
    \/ Plan
    \/ Worker("mixed")
    \/ Reduce
    \/ Finish
    \/ Enqueue(MaxCycles)

Spec == Init /\ [][Next]_vars

\* ticks whose worker only proposes and updates tasks
InitTasks == InitWith({""}, {default_state})

NextTasks ==
    \/ TickStart(MaxTicks)
    \/ ProbeHardware
    \/ Plan
    \/ Worker("tasks")
    \/ Reduce
    \/ Finish

SpecTasks == InitTasks /\ [][NextTasks]_vars

\* a state.json in which an operator has marked a request FAILED by hand
FailedRequestState ==
    [default_state EXCEPT
        !.day = 1,
        !.hardware_requests =
            << [id |-> <<"hardware", Yesterday0, 1>>, name |-> "Lidar", reason |-> "need range",
                status |-> "FAILED",
                detection |-> [kind |-> "path_exists", value |-> "/dev/lidar0"],
                verify_command |-> "lidar-check",
                last_checked_on |-> Yesterday0, detected_on |-> Yesterday0,
                verified_on |-> NoDate, verify_failures |-> 3, notes |-> 3] >>]

\* ticks whose worker only proposes hardware requests
InitHardware == InitWith({""}, {default_state, FailedRequestState})

NextHardware ==
    \/ TickStart(MaxTicks)
    \/ ProbeHardware
    \/ Plan
    \/ Worker("hardware")
    \/ Reduce
    \/ Finish

SpecHardware == InitHardware /\ [][NextHardware]_vars

\* ticks on a device with notification channels, whose worker proposes nothing
InitAdapters == InitFull({""}, {default_state, TerminatedState(1)}, ChannelConfigs)

NextAdapters ==
    \/ TickSkipped(MaxCycles)
    \/ TickStart(MaxCycles)
    \/ Terminate
    \/ ProbeHardware
    \/ Plan
    \/ Worker("plain")
    \/ Reduce
    \/ Finish
    \/ Enqueue(MaxCycles)

SpecAdapters == InitAdapters /\ [][NextAdapters]_vars

\* ticks whose worker appends several tasks, requests and incidents at once
InitIds == InitWith({""}, {default_state})

NextIds ==
    \/ TickStart(MaxCycles)
    \/ ProbeHardware
    \/ Plan
    \/ Worker("ids")
    \/ Reduce
    \/ Finish

SpecIds == InitIds /\ [][NextIds]_vars

\* a state.json whose first task was deferred until day d and whose second
\* task carries a defer_until that is not a date
DeferredState(d) ==
    [default_state EXCEPT
        !.day = 1,
        !.tasks =
            << [id |-> <<"task", Yesterday0, 1>>, title |-> "Fix WiFi", status |-> "IN_PROGRESS",
                completed_on |-> NoDate, defer_until |-> d, defer_reason |-> "waiting for parts",
                selection_streak |-> 1],
               [id |-> <<"task", Yesterday0, 2>>, title |-> "Scan Room", status |-> "TODO",
                completed_on |-> NoDate, defer_until |-> BadDate, defer_reason |-> "soon",
                selection_streak |-> 0] >>]

\* ticks that start with deferred tasks
InitDefer == InitWith({""}, {DeferredState(Yesterday0), DeferredState(Today0)})

NextDefer ==
    \/ TickStart(MaxCycles)
    \/ ProbeHardware
    \/ Plan
    \/ Worker("tasks")
    \/ Reduce
    \/ Finish

SpecDefer == InitDefer /\ [][NextDefer]_vars

\* ticks whose worker only proposes tasks, duplicates included
InitProposals == InitWith({""}, {default_state})

NextProposals ==
    \/ TickStart(MaxTicks)
    \/ ProbeHardware
    \/ Plan
    \/ Worker("proposals")
    \/ Reduce
    \/ Finish

SpecProposals == InitProposals /\ [][NextProposals]_vars

\* a state.json of day 1 with a task selected twice, a TODO task whose
\* defer_until does not parse, and an open hardware request
BusyState ==
    [default_state EXCEPT
        !.day = 1,
        !.tasks =
            << [id |-> <<"task", Yesterday0, 1>>, title |-> "Fix WiFi", status |-> "IN_PROGRESS",
                completed_on |-> NoDate, defer_until |-> NoDate, defer_reason |-> "",
                selection_streak |-> 2],
               [id |-> <<"task", Yesterday0, 2>>, title |-> "Scan Room", status |-> "TODO",
                completed_on |-> NoDate, defer_until |-> BadDate, defer_reason |-> "soon",
                selection_streak |-> 0] >>,
        !.hardware_requests =
            << [id |-> <<"hardware", Yesterday0, 1>>, name |-> "USB Camera", reason |-> "need vision",
                status |-> "OPEN",
                detection |-> [kind |-> "glob_exists", value |-> "/dev/video*"],
                verify_command |-> "v4l2-ctl --all",
                last_checked_on |-> NoDate, detected_on |-> NoDate, verified_on |-> NoDate,
                verify_failures |-> 0, notes |-> 0] >>]

\* ticks in which every step of the cycle has something to report
InitOrder == InitFull({""}, {BusyState}, {<< "slack" >>})

NextOrder ==
    \/ TickStart(MaxCycles)
    \/ ProbeHardware
    \/ Plan
    \/ Worker("cycle")
    \/ Reduce
    \/ Finish

SpecOrder == InitOrder /\ [][NextOrder]_vars

\* ticks in which save_state can raise
InitStorage == InitWith({""}, {default_state})

NextStorage ==
    \/ TickStart(MaxTicks)
    \/ ProbeHardware
    \/ Plan
    \/ Worker("plain")
    \/ Reduce
    \/ ReduceSaveRaises
    \/ Finish

SpecStorage == InitStorage /\ [][NextStorage]_vars

\* a state.json with three IN_PROGRESS tasks and no TODO task
CrowdedState ==
    [default_state EXCEPT
        !.day = 1,
        !.tasks =
            [i \in 1..3 |->
                [id |-> <<"task", Yesterday0, i>>,
                 title |-> << "Fix WiFi", "Scan Room", "Mount camera" >>[i],
                 status |-> "IN_PROGRESS", completed_on |-> NoDate,
                 defer_until |-> NoDate, defer_reason |-> "", selection_streak |-> 0]]]

\* ticks whose worker never changes a task, run by the scheduler for as long
\* as the tick budget lasts
InitStarve == InitWith({""}, {CrowdedState})

NextStarve ==
    \/ TickStart(MaxTicks)
    \/ ProbeHardware
    \/ Plan
    \/ Worker("plain")
    \/ Reduce
    \/ Finish

SpecStarve == InitStarve /\ [][NextStarve]_vars /\ WF_vars(NextStarve)

-----------------------------------------------------------------------------
(* Properties *)

\* the events.ndjson lines appended by the step from the current state
NewEvents == SubSeq(events', Len(events) + 1, Len(events'))

\* the events.ndjson lines of the cycle cid
CycleEvents(cid) ==
    {events[i] : i \in {j \in DOMAIN events :
                           "cycle_id" \in DOMAIN events[j] /\ events[j].cycle_id = cid}}

NameKey(request) == Lower(Strip(request.name))

PendingIndexes(requests) == {i \in DOMAIN requests : requests[i].status \in PendingStatuses}

OnePendingPerName(requests) ==
    \A i, j \in PendingIndexes(requests) : NameKey(requests[i]) = NameKey(requests[j]) => i = j

\* C1: in the running tick's state and in state.json, at most one hardware
\* request per case-folded, trimmed name is OPEN or DETECTED, after any
\* sequence of reconciler, planner and reducer passes; so a proposal whose name
\* matches a pending request or an earlier proposal of the same result is not
\* appended.
C1_OnePendingRequestPerName ==
    /\ OnePendingPerName(mem.hardware_requests)
    /\ OnePendingPerName(disk.hardware_requests)

\* the reducer has just dropped the second of two proposals with the same name key
C1_Witness ==
    /\ pc = "reduced"
    /\ Len(cur.worker_result.proposed_hardware_requests) = 2
    /\ Cardinality({i \in PendingIndexes(mem.hardware_requests) :
                       NameKey(mem.hardware_requests[i]) = "usb camera"}) = 1

DoneTasksAreClean(tasks) ==
    \A i \in DOMAIN tasks :
        tasks[i].status = "DONE" =>
            /\ tasks[i].completed_on # NoDate
            /\ tasks[i].defer_until = NoDate
            /\ tasks[i].selection_streak = 0

\* C2: after any sequence of planner and reducer passes every DONE task has
\* completed_on set, defer_until null and selection_streak 0.
C2_DoneTasksAreClean ==
    /\ DoneTasksAreClean(mem.tasks)
    /\ DoneTasksAreClean(disk.tasks)

PlanStep == pc = "probed" /\ pc' = "planned"

\* C3: a plan_work_order call selects at most one task; the selected task's
\* selection_streak is its old value plus 1 and every other task's is 0 (all
\* are 0 when no task is selected).
C3_SelectionStreaks ==
    [][PlanStep =>
        /\ DOMAIN mem'.tasks = DOMAIN mem.tasks
        /\ cur'.task_index \in 0..Len(mem.tasks)
        /\ \A i \in DOMAIN mem.tasks :
              mem'.tasks[i].selection_streak =
                  IF i = cur'.task_index THEN mem.tasks[i].selection_streak + 1 ELSE 0]_vars

\* the planner selected, for the third time in a row, one of two tasks
C3_Witness ==
    /\ pc = "planned"
    /\ Len(mem.tasks) = 2
    /\ cur.task_index # 0
    /\ mem.tasks[cur.task_index].selection_streak = 3

Eligible(task) == ~(task.defer_until > today)

C5_RotationOutcome ==
    [][PlanStep =>
        \A k \in DOMAIN NewEvents :
            NewEvents[k].type = "TASK_PLANNER_ROTATED" =>
                LET a == TaskIndexById(mem.tasks, NewEvents[k].from_task_id)
                    b == TaskIndexById(mem.tasks, NewEvents[k].to_task_id)
                IN
                /\ a # 0 /\ b # 0 /\ a # b
                /\ mem.tasks[a].status = "IN_PROGRESS"
                /\ mem.tasks[b].status = "TODO"
                /\ cur'.task_index = b
                /\ mem'.tasks[b].status = "IN_PROGRESS"
                /\ mem'.tasks[b].selection_streak = 1
                /\ mem'.tasks[a].status = "IN_PROGRESS"
                /\ mem'.tasks[a].selection_streak = 0
                /\ \E m \in DOMAIN NewEvents :
                      /\ NewEvents[m].type = "TASK_STATUS_CHANGED"
                      /\ NewEvents[m].task_id = NewEvents[k].to_task_id
                      /\ NewEvents[m].from = "TODO"
                      /\ NewEvents[m].to = "IN_PROGRESS"]_vars

\* the planner has just rotated to a task that is now IN_PROGRESS beside the old one
C5_Witness ==
    /\ pc = "planned"
    /\ cur.rotated
    /\ mem.tasks[cur.task_index].status = "IN_PROGRESS"
    /\ \E i \in DOMAIN mem.tasks :
          /\ i # cur.task_index
          /\ mem.tasks[i].status = "IN_PROGRESS"
          /\ mem.tasks[i].selection_streak = 0

ReduceStep == pc = "worked" /\ pc' = "reduced"

FailedWorkerIncidents(incidents) ==
    {i \in DOMAIN incidents :
        /\ incidents[i].title = "Worker execution failed"
        /\ incidents[i].status = "OPEN"
        /\ incidents[i].severity = "HIGH"}

\* C6: after apply_worker_result, state.status is ERROR if the worker status is
\* FAILED, otherwise BLOCKED_HARDWARE if some hardware request of the resulting
\* state is OPEN or DETECTED, otherwise ACTIVE, whatever it was before; a
\* FAILED result appends exactly one OPEN, HIGH incident "Worker execution
\* failed", as the last incident.
C6_StatusDerivation ==
    [][ReduceStep =>
        /\ mem'.status =
              IF cur.worker_result.status = "FAILED" THEN "ERROR"
              ELSE IF PendingIndexes(mem'.hardware_requests) # {} THEN "BLOCKED_HARDWARE"
              ELSE "ACTIVE"
        /\ cur.worker_result.status = "FAILED" =>
              /\ Cardinality(FailedWorkerIncidents(mem'.incidents))
                    = Cardinality(FailedWorkerIncidents(mem.incidents)) + 1
              /\ Len(mem'.incidents) \in FailedWorkerIncidents(mem'.incidents)
        /\ cur.worker_result.status # "FAILED" =>
              FailedWorkerIncidents(mem'.incidents) = FailedWorkerIncidents(mem.incidents)]_vars

\* the reducer derived BLOCKED_HARDWARE from a request that is DETECTED, in a
\* state whose status was ERROR before
C6_Witness ==
    /\ pc = "reduced"
    /\ cur.worker_result.status # "FAILED"
    /\ mem.status = "BLOCKED_HARDWARE"
    /\ \E i \in DOMAIN mem.hardware_requests : mem.hardware_requests[i].status = "DETECTED"
    /\ \A i \in DOMAIN mem.hardware_requests : mem.hardware_requests[i].status # "OPEN"

\* a tick has ended: run_tick returned or raised
TickEnded == pc = "idle" /\ out.kind # "none"

\* the tick that ended took the termination branch
TerminationTick == cur.message # "" /\ is_terminate_command(cur.message)

\* C7 as stated: after every tick run with an empty mission text, a persisted
\* day below 3 comes with an empty persisted becoming.
C7_EarlyBecomingEmpty ==
    (TickEnded /\ _mission_unknown(mission) /\ disk.day < 3) => disk.becoming = ""

\* C7 amended: after every tick run with an empty mission text that is not a
\* termination cycle, a persisted day below 3 comes with an empty persisted
\* becoming.
C7_EarlyBecomingEmptyUnlessTerminating ==
    (TickEnded /\ ~TerminationTick /\ _mission_unknown(mission) /\ disk.day < 3)
        => disk.becoming = ""

\* a cycle of day 1 or 2 ended after the worker proposed a becoming that is not
\* framework-internal
C7_Witness ==
    /\ TickEnded
    /\ ~TerminationTick
    /\ _mission_unknown(mission)
    /\ disk.day \in 1..2
    /\ \E e \in CycleEvents(cur.cycle_id) :
          e.type = "BECOMING_REJECTED" /\ e.reason = "too_early"

\* C8: a tick that finds state.status TERMINATED and no pending human message
\* returns a skipped result, appends no CYCLE_STARTED event, runs no step of a
\* cycle, and leaves state.day unchanged and state.status TERMINATED.
C8_TerminatedAbsorbing ==
    [][(/\ pc = "idle"
        /\ ticks' = ticks + 1
        /\ disk.status = "TERMINATED"
        /\ load_and_clear_human_message(inbox) = "")
       =>
       (/\ out'.kind = "skipped"
        /\ pc' = "idle"
        /\ \A k \in DOMAIN NewEvents : NewEvents[k].type # "CYCLE_STARTED"
        /\ files' = files
        /\ disk'.day = disk.day
        /\ disk'.status = "TERMINATED")]_vars

\* a second consecutive tick was skipped
C8_Witness ==
    /\ out.kind = "skipped"
    /\ ticks >= 2
    /\ disk.status = "TERMINATED"
    /\ \A i \in DOMAIN events : events[i].type # "CYCLE_STARTED"

\* C9: a tick that consumes a termination message ends with persisted status
\* TERMINATED, day incremented by 1, a HUMAN_COMMAND_TERMINATE event, a session
\* record and public artifacts written, and no work order or worker result.
C9_TerminationTick ==
    (TickEnded /\ TerminationTick) =>
        /\ disk.status = "TERMINATED"
        /\ disk.day = cur.day
        /\ \E e \in CycleEvents(cur.cycle_id) : e.type = "HUMAN_COMMAND_TERMINATE"
        /\ \E r \in files.sessions : r.cycle_id = cur.cycle_id
        /\ files.public_status = cur.day
        /\ cur.cycle_id \notin files.work_orders
        /\ cur.cycle_id \notin files.worker_results

\* C10: a tick whose worker returned a FAILED result is a completed cycle:
\* status ERROR, CYCLE_COMPLETED and no CYCLE_FAILED for the cycle, and the
\* notifications go through send_cycle_notifications.
C10_FailedResultCompletes ==
    (/\ TickEnded
     /\ cur.cycle_id \in files.worker_results
     /\ cur.worker_result.status = "FAILED")
    =>
        /\ disk.status = "ERROR"
        /\ out.kind = "completed"
        /\ out.notify = "cycle"
        /\ \E e \in CycleEvents(cur.cycle_id) : e.type = "CYCLE_COMPLETED"
        /\ \A e \in CycleEvents(cur.cycle_id) : e.type # "CYCLE_FAILED"

\* the step in which run_tick raises
FailStep == out.kind # "raised" /\ out'.kind = "raised"

CycleFailedEvents(evs, cid) ==
    {k \in DOMAIN evs : evs[k].type = "CYCLE_FAILED" /\ evs[k].cycle_id = cid}

WorkerRaised ==
    /\ TickEnded
    /\ out.kind = "raised"
    /\ cur.cycle_id \in files.work_orders
    /\ cur.cycle_id \notin files.worker_results

\* C12 as stated: after a cycle that failed in the worker adapter, the persisted
\* tasks, hardware_requests, day and purpose are those loaded at the start of
\* the tick.
C12_WorkerRaiseKeepsLoadedState ==
    WorkerRaised =>
        /\ disk.tasks = cur.loaded.tasks
        /\ disk.hardware_requests = cur.loaded.hardware_requests
        /\ disk.day = cur.loaded.day
        /\ disk.becoming = cur.loaded.becoming

\* C12 amended: after a cycle that failed in the worker adapter, the persisted
\* state is the loaded state as changed by the pre-cycle becoming policy, one
\* reconciler pass and one planner pass, with status ERROR, one incident
\* appended and last_summary replaced; day is the loaded day.
C12_WorkerRaiseKeepsPlannedState ==
    WorkerRaised =>
        \E sigs \in SignalAssignments(cur.loaded.hardware_requests) :
            LET pre == _clear_becoming_from_state_when_mission_unknown(cur.loaded, mission).state
                probe == probe_hardware_requests(pre.hardware_requests, sigs)
                probed == [pre EXCEPT !.hardware_requests = probe.requests]
                plan == plan_work_order(probed, mission)
            IN
            /\ Len(disk.incidents) = Len(pre.incidents) + 1
            /\ disk = [probed EXCEPT !.tasks = plan.tasks,
                                     !.status = "ERROR",
                                     !.incidents = Append(@, disk.incidents[Len(disk.incidents)]),
                                     !.last_summary = disk.last_summary]
            /\ disk.day = cur.loaded.day

\* the worker adapter raised in a tick whose reconciler pass had changed a
\* hardware request
C12_Witness ==
    /\ WorkerRaised
    /\ disk.hardware_requests # cur.loaded.hardware_requests

EventsOfType(type) == {i \in DOMAIN events : events[i].type = type}

\* C14: no step of any tick (completed, skipped, terminated or failed) removes
\* or rewrites a line of events.ndjson: the lines before the step are a prefix
\* of the lines after it, so the line count never decreases.
C14_EventsAppendOnly ==
    [][/\ Len(events') >= Len(events)
       /\ SubSeq(events', 1, Len(events)) = events]_vars

\* a skipped tick was followed by a cycle that failed, and both left lines
C14_Witness ==
    /\ TickEnded
    /\ ticks = 2
    /\ out.kind = "raised"
    /\ Cardinality(EventsOfType("CYCLE_STARTED")) = 1
    /\ EventsOfType("HUMAN_MESSAGE_RECEIVED") # {}
    /\ EventsOfType("CYCLE_FAILED") # {}

\* C15: the persisted state.day never decreases and no step adds more than 1;
\* a tick that ran a cycle ends with the loaded day or the loaded day plus 1;
\* a tick that appends CYCLE_COMPLETED ends with the loaded day plus 1.
C15_DayMonotonic ==
    [][/\ disk'.day >= disk.day
       /\ disk'.day <= disk.day + 1
       /\ (pc' = "idle" /\ out'.kind \notin {"none", "skipped"})
             => disk'.day \in {cur'.loaded.day, cur'.loaded.day + 1}
       /\ (\E k \in DOMAIN NewEvents : NewEvents[k].type = "CYCLE_COMPLETED")
             => disk'.day = cur'.loaded.day + 1]_vars

\* a tick on a device of day 1 or more ended with the day one higher, after an
\* earlier tick of the same run
C15_Witness ==
    /\ TickEnded
    /\ ticks = 2
    /\ out.kind \notin {"none", "skipped"}
    /\ cur.loaded.day >= 1
    /\ disk.day = cur.loaded.day + 1

\* C16 as stated: at most one hardware request, of any name, is OPEN or
\* DETECTED.
C16_AtMostOnePending ==
    /\ Cardinality(PendingIndexes(mem.hardware_requests)) <= 1
    /\ Cardinality(PendingIndexes(disk.hardware_requests)) <= 1

PendingNameKeys(requests) == {NameKey(requests[i]) : i \in PendingIndexes(requests)}

\* C16 amended: the pending requests are one per case-folded, trimmed name;
\* there are as many OPEN or DETECTED requests as there are distinct names
\* among them, and requests of different names may be pending together.
C16_OnePendingPerDistinctName ==
    /\ Cardinality(PendingIndexes(mem.hardware_requests))
          = Cardinality(PendingNameKeys(mem.hardware_requests))
    /\ Cardinality(PendingIndexes(disk.hardware_requests))
          = Cardinality(PendingNameKeys(disk.hardware_requests))

\* two requests of different names are pending in state.json after a reducer
\* pass
C16_Witness ==
    /\ pc = "reduced"
    /\ Cardinality(PendingIndexes(disk.hardware_requests)) = 2
    /\ Cardinality(PendingNameKeys(disk.hardware_requests)) = 2

ProbeStep == pc = "started" /\ pc' = "probed"

\* the events of one pass that name the request, as <<type, from, to>> where
\* the event is a status change
RequestEvents(evs, id) ==
    LET mine == SelectSeq(evs, LAMBDA e : e.request_id = id) IN
    [k \in DOMAIN mine |->
        IF mine[k].type = "HARDWARE_STATUS_CHANGED"
        THEN <<mine[k].type, mine[k].from, mine[k].to>>
        ELSE <<mine[k].type>>]

\* the signals of a pass verify request r: detection present and the
\* verify_command empty or successful
VerifyingSignals(r, sig) ==
    sig.detected /\ (Strip(r.verify_command) = "" \/ sig.verify_ok)

\* an OPEN request verified in one pass: both events in order, both dates set,
\* verify_failures unchanged
OpenToVerified ==
    ProbeStep =>
        \A i \in DOMAIN mem.hardware_requests :
            LET r == mem.hardware_requests[i]
                r2 == mem'.hardware_requests[i]
            IN
            (r.status = "OPEN" /\ VerifyingSignals(r, cur'.signals[i])) =>
                /\ r2.status = "VERIFIED"
                /\ RequestEvents(NewEvents, r.id) =
                      << <<"HARDWARE_STATUS_CHANGED", "OPEN", "DETECTED">>,
                         <<"HARDWARE_STATUS_CHANGED", "DETECTED", "VERIFIED">> >>
                /\ r2.detected_on = today
                /\ r2.verified_on = today
                /\ r2.verify_failures = r.verify_failures

\* the requests the reconciler pass of the running cycle moved from OPEN to
\* VERIFIED
VerifiedFromOpen ==
    {i \in DOMAIN mem.hardware_requests :
        /\ mem.hardware_requests[i].status = "VERIFIED"
        /\ \E e \in CycleEvents(cur.cycle_id) :
              /\ e.type = "HARDWARE_STATUS_CHANGED"
              /\ e.request_id = mem.hardware_requests[i].id
              /\ e.from = "OPEN"}

\* the reconciler pass of the running cycle verified the only pending request
VerifiedOnlyPending ==
    /\ Cardinality(VerifiedFromOpen) = 1
    /\ PendingIndexes(mem.hardware_requests) = {}

\* C17 as stated: an OPEN request with verifying signals goes OPEN, DETECTED,
\* VERIFIED in one pass with exactly those two events in that order, both
\* dates set and verify_failures unchanged; if it was the only pending request
\* the reducer then derives ACTIVE.
C17_VerifiedThenActive ==
    [][/\ OpenToVerified
       /\ (ReduceStep /\ VerifiedOnlyPending) => mem'.status = "ACTIVE"]_vars

\* C17 amended: as C17, but the reducer derives ACTIVE exactly when the worker
\* result is not FAILED and no new hardware request is created by the same
\* reducer pass (ERROR and BLOCKED_HARDWARE otherwise).
C17_VerifiedThenDerived ==
    [][/\ OpenToVerified
       /\ (ReduceStep /\ VerifiedOnlyPending) =>
             mem'.status =
                 IF cur.worker_result.status = "FAILED" THEN "ERROR"
                 ELSE IF \E k \in DOMAIN NewEvents :
                            NewEvents[k].type = "HARDWARE_REQUEST_CREATED"
                 THEN "BLOCKED_HARDWARE"
                 ELSE "ACTIVE"]_vars

\* the reducer derived ACTIVE in a cycle whose reconciler pass took the only
\* pending request from OPEN to VERIFIED
C17_Witness ==
    /\ pc = "reduced"
    /\ mem.status = "ACTIVE"
    /\ VerifiedOnlyPending

\* C18: a request that is DETECTED before a reconciler pass and whose
\* detection signal is absent during the pass ends the pass OPEN with
\* detected_on null; exactly one event names it, HARDWARE_STATUS_CHANGED from
\* DETECTED to OPEN; its verify_command is not run.
C18_DetectedBackToOpen ==
    [][ProbeStep =>
        \A i \in DOMAIN mem.hardware_requests :
            LET r == mem.hardware_requests[i]
                r2 == mem'.hardware_requests[i]
            IN
            (r.status = "DETECTED" /\ ~cur'.signals[i].detected) =>
                /\ r2.status = "OPEN"
                /\ r2.detected_on = NoDate
                /\ RequestEvents(NewEvents, r.id) =
                      << <<"HARDWARE_STATUS_CHANGED", "DETECTED", "OPEN">> >>
                /\ cur'.verify_runs[i] = 0
                /\ r2.verify_failures = r.verify_failures
                /\ r2.verified_on = r.verified_on]_vars

\* a reconciler pass has moved a request with a verify_command from DETECTED
\* back to OPEN
C18_Witness ==
    /\ pc = "probed"
    /\ \E i \in DOMAIN mem.hardware_requests :
          /\ mem.hardware_requests[i].status = "OPEN"
          /\ mem.hardware_requests[i].verify_failures >= 1
          /\ mem.hardware_requests[i].detected_on = NoDate
          /\ ~cur.signals[i].detected
          /\ \E e \in CycleEvents(cur.cycle_id) :
                /\ e.type = "HARDWARE_STATUS_CHANGED"
                /\ e.request_id = mem.hardware_requests[i].id
                /\ e.to = "OPEN"

\* the signals of a pass detect request r and fail its verify_command
FailingSignals(r, sig) ==
    sig.detected /\ Strip(r.verify_command) # "" /\ ~sig.verify_ok

\* C19: a pass in which detection succeeds and verify_command fails adds
\* exactly 1 to verify_failures, emits HARDWARE_VERIFICATION_FAILED as the
\* request's last event and leaves the request DETECTED; a pending request,
\* whatever its verify_failures, is VERIFIED by the pass in which detection and
\* verification both succeed.
C19_FailedVerificationKeepsRequest ==
    [][ProbeStep =>
        \A i \in DOMAIN mem.hardware_requests :
            LET r == mem.hardware_requests[i]
                r2 == mem'.hardware_requests[i]
                mine == RequestEvents(NewEvents, r.id)
            IN
            /\ (r.status \in PendingStatuses /\ FailingSignals(r, cur'.signals[i])) =>
                  /\ r2.verify_failures = r.verify_failures + 1
                  /\ r2.status = "DETECTED"
                  /\ mine # <<>>
                  /\ mine[Len(mine)] = <<"HARDWARE_VERIFICATION_FAILED">>
                  /\ Cardinality({k \in DOMAIN mine :
                                     mine[k] = <<"HARDWARE_VERIFICATION_FAILED">>}) = 1
            /\ (r.status \in PendingStatuses /\ VerifyingSignals(r, cur'.signals[i])) =>
                  /\ r2.status = "VERIFIED"
                  /\ r2.verify_failures = r.verify_failures]_vars

\* a request was verified by the first successful pass after two passes whose
\* verification failed
C19_Witness ==
    /\ pc = "probed"
    /\ \E i \in DOMAIN mem.hardware_requests :
          /\ mem.hardware_requests[i].status = "VERIFIED"
          /\ mem.hardware_requests[i].verify_failures = 2
          /\ cur.signals[i].verify_ok

\* C20: no step of the control plane makes a request FAILED (a FAILED request
\* was already FAILED before the step), and a reconciler pass leaves a FAILED
\* request as it is, field by field, appends no event for it and runs no
\* command for it.
C20_FailedIsTerminal ==
    [][/\ \A i \in DOMAIN mem'.hardware_requests :
             mem'.hardware_requests[i].status = "FAILED" =>
                 /\ i \in DOMAIN mem.hardware_requests
                 /\ mem.hardware_requests[i].status = "FAILED"
       /\ ProbeStep =>
             \A i \in DOMAIN mem.hardware_requests :
                 mem.hardware_requests[i].status = "FAILED" =>
                     /\ mem'.hardware_requests[i] = mem.hardware_requests[i]
                     /\ RequestEvents(NewEvents, mem.hardware_requests[i].id) = <<>>
                     /\ cur'.verify_runs[i] = 0]_vars

\* a reconciler pass went over a FAILED request and a pending one, and changed
\* only the pending one
C20_Witness ==
    /\ pc = "probed"
    /\ Len(mem.hardware_requests) = 2
    /\ mem.hardware_requests[1].status = "FAILED"
    /\ mem.hardware_requests[1].last_checked_on = Yesterday0
    /\ mem.hardware_requests[2].last_checked_on = today

\* a git command failed or a notification channel did not deliver in the tick
\* that ended
AdapterFailed ==
    \/ out.git \in {"add_failed", "commit_failed", "push_failed"}
    \/ \E i \in DOMAIN out.notifications : ~out.notifications[i].sent

\* C13: a tick in which only the git adapter or a notification channel failed
\* returns normally: CYCLE_COMPLETED and no CYCLE_FAILED for the cycle, status
\* ERROR only from a FAILED worker result, and a NOTIFICATION_FAILED event for
\* each channel that did not deliver.
C13_AdapterFailureCompletes ==
    (TickEnded /\ ~WorkerRaised /\ AdapterFailed) =>
        /\ out.kind \in {"completed", "terminated"}
        /\ \E e \in CycleEvents(cur.cycle_id) : e.type = "CYCLE_COMPLETED"
        /\ \A e \in CycleEvents(cur.cycle_id) : e.type # "CYCLE_FAILED"
        /\ disk.status = "ERROR" => cur.worker_result.status = "FAILED"
        /\ \A i \in DOMAIN out.notifications :
              ~out.notifications[i].sent =>
                  \E e \in CycleEvents(cur.cycle_id) :
                      /\ e.type = "NOTIFICATION_FAILED"
                      /\ e.channel = out.notifications[i].channel

\* C21: a request that is OPEN, DETECTED or VERIFIED before a reconciler pass
\* and whose detection signal is absent during the pass is OPEN after it.
C21_AnyStatusDropsToOpen ==
    [][ProbeStep =>
        \A i \in DOMAIN mem.hardware_requests :
            (/\ mem.hardware_requests[i].status \in {"OPEN", "DETECTED", "VERIFIED"}
             /\ ~cur'.signals[i].detected) =>
                mem'.hardware_requests[i].status = "OPEN"]_vars

\* C22: a reconciler pass repeated on the requests it produced, under the same
\* detection and verification signals, changes no request's status and emits
\* no HARDWARE_STATUS_CHANGED event; and no step between two passes changes the
\* status of an existing request.
C22_ReconcilerIdempotent ==
    [][/\ ProbeStep =>
             LET second == probe_hardware_requests(mem'.hardware_requests, cur'.signals) IN
             /\ \A i \in DOMAIN mem'.hardware_requests :
                    second.requests[i].status = mem'.hardware_requests[i].status
             /\ \A k \in DOMAIN second.events :
                    second.events[k].type # "HARDWARE_STATUS_CHANGED"
       /\ ~ProbeStep =>
             \A i \in DOMAIN mem.hardware_requests :
                 /\ i \in DOMAIN mem'.hardware_requests
                 /\ mem'.hardware_requests[i].status = mem.hardware_requests[i].status]_vars

\* a pass left a request DETECTED without a status event, under the signals
\* (detected, verification failing) that the pass before it had also observed
C22_Witness ==
    /\ pc = "probed"
    /\ \E i \in DOMAIN mem.hardware_requests :
          /\ mem.hardware_requests[i].status = "DETECTED"
          /\ mem.hardware_requests[i].verify_failures >= 2
          /\ mem.hardware_requests[i].detected_on = mem.hardware_requests[i].last_checked_on
          /\ cur.signals[i].detected /\ ~cur.signals[i].verify_ok
          /\ \A e \in CycleEvents(cur.cycle_id) :
                e.type = "HARDWARE_STATUS_CHANGED" =>
                    e.request_id # mem.hardware_requests[i].id

WorkerStep == pc = "planned" /\ pc' = "worked"

\* the becoming the worker returned must be rejected: the mission is unknown
\* and the text is framework-internal or the cycle's day is below the
\* discovery threshold
MustReject(becoming, day) ==
    /\ _mission_unknown(mission)
    /\ Strip(becoming) # ""
    /\ \/ _looks_framework_internal_becoming(becoming)
       \/ day < _MISSION_DISCOVERY_MIN_DAY_FOR_BECOMING

RejectedEvents(evs) == {k \in DOMAIN evs : evs[k].type = "BECOMING_REJECTED"}

\* C23: when the mission is unknown and the worker returns a non-empty
\* becoming that is framework-internal or arrives on a day below 3, the field
\* is removed from the worker result before the reducer runs, exactly one
\* BECOMING_REJECTED event is appended, and the reducer leaves the state's
\* becoming unchanged; in every other case no BECOMING_REJECTED is appended and
\* the result is passed on as returned, and with a mission text the reducer
\* sets the state's becoming to the returned one.
C23_BecomingRejection ==
    [][/\ WorkerStep =>
             IF MustReject(cur'.proposed_becoming, cur.day)
             THEN /\ cur'.worker_result.becoming = ""
                  /\ Cardinality(RejectedEvents(NewEvents)) = 1
                  /\ \A k \in RejectedEvents(NewEvents) :
                        /\ NewEvents[k].candidate = Strip(cur'.proposed_becoming)
                        /\ NewEvents[k].cycle_id = cur.cycle_id
             ELSE /\ cur'.worker_result.becoming = cur'.proposed_becoming
                  /\ RejectedEvents(NewEvents) = {}
       /\ ~WorkerStep => RejectedEvents(NewEvents) = {}
       /\ ReduceStep =>
             IF MustReject(cur.proposed_becoming, cur.day)
             THEN /\ mem'.becoming = mem.becoming
                  /\ \A k \in DOMAIN NewEvents : NewEvents[k].type # "BECOMING_UPDATED"
             ELSE (~_mission_unknown(mission) /\ Strip(cur.proposed_becoming) # "") =>
                      mem'.becoming = Strip(cur.proposed_becoming)]_vars

\* the reducer has run on a result whose becoming was rejected for arriving
\* too early, and the state's becoming is still empty
C23_Witness ==
    /\ pc = "reduced"
    /\ mission = ""
    /\ cur.proposed_becoming = "Help keep the beach clean."
    /\ cur.worker_result.becoming = ""
    /\ cur.day < _MISSION_DISCOVERY_MIN_DAY_FOR_BECOMING
    /\ mem.becoming = ""

\* a tick begins: run_tick loads the state, applies the pre-cycle becoming
\* policy and reads the inbox
TickBegin == pc = "idle" /\ ticks' = ticks + 1

\* the becoming of state.json must be cleared before the cycle
MustClear(state) ==
    /\ _mission_unknown(mission)
    /\ Strip(state.becoming) # ""
    /\ \/ state.day < _MISSION_DISCOVERY_MIN_DAY_FOR_BECOMING
       \/ _looks_framework_internal_becoming(state.becoming)

ClearedEvents(evs) == {k \in DOMAIN evs : evs[k].type = "BECOMING_CLEARED"}

\* C24: at the start of a tick with an unknown mission, a non-empty becoming
\* of state.json is set to "" with exactly one BECOMING_CLEARED event and the
\* state saved, if state.day < 3 or the text is framework-internal; otherwise
\* (mission text present, or day >= 3 and no marker) the becoming and
\* state.json are left as they are and no BECOMING_CLEARED is appended; no
\* other step appends BECOMING_CLEARED.
C24_PreCycleClear ==
    [][/\ TickBegin =>
             IF MustClear(disk)
             THEN /\ mem'.becoming = ""
                  /\ disk' = [disk EXCEPT !.becoming = ""]
                  /\ Cardinality(ClearedEvents(NewEvents)) = 1
                  /\ \A k \in ClearedEvents(NewEvents) :
                        NewEvents[k].from = Strip(disk.becoming)
             ELSE /\ mem'.becoming = disk.becoming
                  /\ disk' = disk
                  /\ ClearedEvents(NewEvents) = {}
       /\ ~TickBegin => ClearedEvents(NewEvents) = {}]_vars

\* a cycle has started on a state of day 3 whose framework-internal becoming
\* was cleared
C24_Witness ==
    /\ pc = "started"
    /\ mission = ""
    /\ cur.loaded.day >= _MISSION_DISCOVERY_MIN_DAY_FOR_BECOMING
    /\ _looks_framework_internal_becoming(cur.loaded.becoming)
    /\ disk.becoming = ""
    /\ mem.becoming = ""

\* a worker result without becoming, proposals, updates or incidents
IsEmptyResult(result) ==
    /\ Strip(result.becoming) = ""
    /\ result.proposed_tasks = <<>>
    /\ result.task_updates = <<>>
    /\ result.proposed_hardware_requests = <<>>
    /\ result.incidents = <<>>

\* the reducer applied to its own output, with the same worker result, returns
\* that output
ReplayIsNoop ==
    apply_worker_result(mem', cur.worker_result).state = mem'

\* C25 as stated: the reducer applied to an empty worker result changes no
\* field of the state other than last_summary, and a second application
\* yields the state of the first (read here for results that are not FAILED).
C25_EmptyResultOnlySummary ==
    [][(ReduceStep /\ IsEmptyResult(cur.worker_result)
                   /\ cur.worker_result.status # "FAILED") =>
          /\ mem'.status = mem.status
          /\ mem'.tasks = mem.tasks
          /\ mem'.hardware_requests = mem.hardware_requests
          /\ mem'.incidents = mem.incidents
          /\ mem'.becoming = mem.becoming
          /\ ReplayIsNoop]_vars

\* C25 amended: the reducer applied to an empty worker result whose status is
\* not FAILED changes no field of the state other than last_summary and
\* status, which becomes BLOCKED_HARDWARE when a request is OPEN or DETECTED
\* and ACTIVE otherwise; it emits no event, and a second application yields
\* the state of the first and no event.
C25_EmptyResultSummaryAndStatus ==
    [][(ReduceStep /\ IsEmptyResult(cur.worker_result)
                   /\ cur.worker_result.status # "FAILED") =>
          /\ mem'.status = IF PendingIndexes(mem.hardware_requests) # {}
                           THEN "BLOCKED_HARDWARE" ELSE "ACTIVE"
          /\ mem'.last_summary = Strip(cur.worker_result.summary)
          /\ mem'.tasks = mem.tasks
          /\ mem'.hardware_requests = mem.hardware_requests
          /\ mem'.incidents = mem.incidents
          /\ mem'.becoming = mem.becoming
          /\ NewEvents = <<>>
          /\ ReplayIsNoop
          /\ apply_worker_result(mem', cur.worker_result).events = <<>>]_vars

\* the reducer has applied an empty result to a state that a failed cycle left
\* in ERROR with a pending request, and derived BLOCKED_HARDWARE
C25_Witness ==
    /\ pc = "reduced"
    /\ cur.worker_result = EmptyResult
    /\ cur.loaded.status = "ERROR"
    /\ mem.status = "BLOCKED_HARDWARE"
    /\ mem.last_summary = "ok"
    /\ mem.incidents = cur.loaded.incidents

DistinctIds(items) ==
    \A i, j \in DOMAIN items : i # j => items[i].id # items[j].id

IdsUnique(state) ==
    /\ DistinctIds(state.tasks)
    /\ DistinctIds(state.hardware_requests)
    /\ DistinctIds(state.incidents)

\* C26: in the state of the running tick and in state.json, the ids of the
\* tasks are pairwise distinct, and so are the ids of the hardware requests
\* and the ids of the incidents.
C26_IdsUnique == IdsUnique(mem) /\ IdsUnique(disk)

\* state.json holds two tasks and two requests appended by one result, and
\* incidents appended by the worker's result, by the reducer for a FAILED
\* worker and by the runtime failure handler
C26_Witness ==
    /\ pc = "idle"
    /\ Len(disk.tasks) = 2
    /\ Len(disk.hardware_requests) = 2
    /\ Len(disk.incidents) >= 4
    /\ \E i \in DOMAIN disk.incidents : disk.incidents[i].title = "WDIB runtime failure"
    /\ \E i \in DOMAIN disk.incidents : disk.incidents[i].title = "Worker execution failed"
    /\ \E i \in DOMAIN disk.incidents : disk.incidents[i].title = "Hot CPU"

\* the events of a planner pass that name the task, by type
TaskEventTypes(evs, id) ==
    LET mine == SelectSeq(evs, LAMBDA e : "task_id" \in DOMAIN e /\ e.task_id = id) IN
    [k \in DOMAIN mine |-> mine[k].type]

DeferEventTypes(evs, id) ==
    SelectSeq(TaskEventTypes(evs, id),
              LAMBDA t : t \in {"TASK_DEFER_RELEASED", "TASK_DEFER_INVALID"})

Selectable(task) == task.status \in {"TODO", "IN_PROGRESS"} /\ ~(task.defer_until > today)

\* C27: after the planner step every task that still has a defer_until has a
\* date strictly after today; a defer_until that is today or earlier is
\* cleared with defer_reason and one TASK_DEFER_RELEASED event, one that is not
\* a date is cleared with one TASK_DEFER_INVALID event, one in the future is
\* kept without an event; the selected task is TODO or IN_PROGRESS and not
\* deferred into the future, and a task is selected whenever one such task
\* exists, released tasks included.
C27_DeferRefresh ==
    [][PlanStep =>
        /\ \A i \in DOMAIN mem.tasks :
              LET t == mem.tasks[i]
                  t2 == mem'.tasks[i]
                  mine == DeferEventTypes(NewEvents, t.id)
              IN
              /\ t2.defer_until # NoDate => t2.defer_until > today
              /\ (t.defer_until > 0 /\ t.defer_until <= today) =>
                    /\ t2.defer_until = NoDate /\ t2.defer_reason = ""
                    /\ mine = << "TASK_DEFER_RELEASED" >>
              /\ t.defer_until = BadDate =>
                    /\ t2.defer_until = NoDate /\ t2.defer_reason = ""
                    /\ mine = << "TASK_DEFER_INVALID" >>
              /\ t.defer_until > today =>
                    /\ t2.defer_until = t.defer_until /\ t2.defer_reason = t.defer_reason
                    /\ mine = <<>>
                    /\ cur'.task_index # i
              /\ t.defer_until = NoDate => mine = <<>>
        /\ cur'.task_index # 0 => Selectable(mem.tasks[cur'.task_index])
        /\ (\E i \in DOMAIN mem.tasks : Selectable(mem.tasks[i])) => cur'.task_index # 0]_vars

\* the planner selected a task that the same pass released from its deferral
C27_Witness ==
    /\ pc = "planned"
    /\ cur.task_index # 0
    /\ \E e \in CycleEvents(cur.cycle_id) :
          /\ e.type = "TASK_DEFER_RELEASED"
          /\ e.task_id = mem.tasks[cur.task_index].id
    /\ mem.tasks[cur.task_index].defer_until = NoDate
    /\ mem.tasks[cur.task_index].defer_reason = ""

TitleKey(item) == Lower(Strip(item.title))

\* the title keys of the tasks that are not DONE
OpenTitleKeys(tasks) ==
    {TitleKey(tasks[i]) : i \in {j \in DOMAIN tasks : tasks[j].status # "DONE"}}

\* the proposals the claim says are appended: a non-empty trimmed title that
\* equals, ignoring case, neither the title of a task that is not DONE nor the
\* title of an earlier proposal of the same result that was appended (the
\* first proposal of a key is the one that can be appended)
AcceptedProposals(tasks, proposed) ==
    {k \in DOMAIN proposed :
        /\ Strip(proposed[k].title) # ""
        /\ TitleKey(proposed[k]) \notin OpenTitleKeys(tasks)
        /\ \A j \in 1..(k - 1) : TitleKey(proposed[j]) # TitleKey(proposed[k])}

\* the n-th element of a set of indexes
NthIndex(S, n) == CHOOSE k \in S : Cardinality({j \in S : j <= k}) = n

\* C28: the reducer appends exactly the proposed tasks whose trimmed title is
\* non-empty and equals, ignoring case, neither the title of an existing task
\* that is not DONE nor the title of a task appended earlier from the same
\* result; the existing tasks keep their places, each appended task has the
\* trimmed title, an id no existing task has and selection_streak 0, and one
\* TASK_CREATED event names it.
C28_ProposedTasksAppended ==
    [][ReduceStep =>
        LET proposed == cur.worker_result.proposed_tasks
            accepted == AcceptedProposals(mem.tasks, proposed)
            n0 == Len(mem.tasks)
        IN
        /\ Len(mem'.tasks) = n0 + Cardinality(accepted)
        /\ \A i \in DOMAIN mem.tasks : mem'.tasks[i].id = mem.tasks[i].id
        /\ \A n \in 1..Cardinality(accepted) :
              LET item == proposed[NthIndex(accepted, n)]
                  task == mem'.tasks[n0 + n]
              IN
              /\ task.title = Strip(item.title)
              /\ task.id \notin IdsOf(mem.tasks)
              /\ \A m \in 1..(n - 1) : mem'.tasks[n0 + m].id # task.id
              /\ task.selection_streak = 0
              /\ \E k \in DOMAIN NewEvents :
                    /\ NewEvents[k].type = "TASK_CREATED"
                    /\ NewEvents[k].task_id = task.id
        /\ Cardinality({k \in DOMAIN NewEvents : NewEvents[k].type = "TASK_CREATED"})
              = Cardinality(accepted)]_vars

\* the reducer has appended a task whose title equals that of a DONE task, from
\* a result whose other proposal had an empty title
C28_Witness ==
    /\ pc = "reduced"
    /\ Len(mem.tasks) = 2
    /\ mem.tasks[1].status = "DONE"
    /\ TitleKey(mem.tasks[1]) = TitleKey(mem.tasks[2])
    /\ mem.tasks[1].id # mem.tasks[2].id
    /\ Len(cur.worker_result.proposed_tasks) = 2
    /\ \E e \in CycleEvents(cur.cycle_id) :
          e.type = "TASK_CREATED" /\ e.task_id = mem.tasks[2].id

\* the step of a cycle that writes the session record: the publication of an
\* ordinary cycle or of a terminating one
PublishStep ==
    /\ pc' = "idle"
    /\ pc = "reduced" \/ (pc = "started" /\ TerminationTick)

\* C29: a session record, once written, stays in sessions/ as it was written;
\* the cycle that publishes writes exactly one record, its own, under a file
\* name (day and date) no earlier record has; no other step touches sessions/.
C29_SessionRecordsImmutable ==
    [][/\ files.sessions \subseteq files'.sessions
       /\ PublishStep =>
             /\ \A r \in files.sessions : ~(r.day = cur.day /\ r.date = today)
             /\ Cardinality(files'.sessions) = Cardinality(files.sessions) + 1
             /\ \A r \in files'.sessions \ files.sessions :
                   r.cycle_id = cur.cycle_id /\ r.day = cur.day /\ r.date = today
       /\ ~PublishStep => files'.sessions = files.sessions]_vars

\* two cycles of the same date, the second one following a failed one, have
\* each left their session record
C29_Witness ==
    /\ pc = "idle"
    /\ Cardinality(files.sessions) = 2
    /\ \A r \in files.sessions : r.date = today
    /\ Cardinality(EventsOfType("CYCLE_FAILED")) = 2

\* the distinct channel names WDIB_NOTIFICATION_CHANNELS configures
ConfiguredNames == {Lower(Strip(channels[i])) : i \in DOMAIN channels} \ {""}

\* what the claim requires of the result list of one router call that met the
\* given delivery
RouterResultsOk(results, delivery) ==
    /\ Len(results) = Cardinality(ConfiguredNames)
    /\ {results[i].channel : i \in DOMAIN results} = ConfiguredNames
    /\ \A i \in DOMAIN results :
          LET r == results[i] IN
          /\ r.channel \notin _PROVIDERS =>
                ~r.sent /\ r.reason = "channel is not registered"
          /\ (r.channel \in _PROVIDERS /\ delivery = "unconfigured") =>
                ~r.sent /\ r.reason = "channel is not configured"
          /\ (r.channel \in _PROVIDERS /\ delivery = "raised") =>
                ~r.sent /\ r.reason = "channel notify failed"
          /\ (r.channel \in _PROVIDERS /\ delivery = "sent") => r.sent

NotificationEvents(evs) ==
    SelectSeq(evs, LAMBDA e : e.type \in {"NOTIFICATION_SENT", "NOTIFICATION_FAILED"})

\* C30: a router call returns one result per distinct configured channel name
\* (none without configured channels): "channel is not registered" for a name
\* without provider, "channel is not configured" for a provider without
\* settings, "channel notify failed" for a provider that raised; the tick goes
\* on to append exactly one NOTIFICATION_SENT or NOTIFICATION_FAILED event per
\* result, in order, for the result's channel; the cycle router and the
\* failure router answer alike.
C30_RouterResults ==
    [][/\ \A d \in Deliveries(channels) :
             /\ RouterResultsOk(send_cycle_notifications(channels, d), d)
             /\ RouterResultsOk(send_failure_notifications(channels, d), d)
       /\ out'.notify # "none" /\ out.notify = "none" =>
             LET results == out'.notifications
                 sent == NotificationEvents(NewEvents)
             IN
             /\ RouterResultsOk(results, out'.delivery)
             /\ Len(sent) = Len(results)
             /\ \A i \in DOMAIN results :
                   /\ sent[i].channel = results[i].channel
                   /\ sent[i].type = IF results[i].sent THEN "NOTIFICATION_SENT"
                                     ELSE "NOTIFICATION_FAILED"
                   /\ sent[i].cycle_id = cur.cycle_id
                   /\ ~results[i].sent => sent[i].reason = results[i].reason
       /\ ~(out'.notify # "none" /\ out.notify = "none") =>
             NotificationEvents(NewEvents) = <<>>]_vars

\* a tick has ended on a device whose channel list repeats a name: two
\* results, one for the unregistered name and one for the slack provider that
\* raised
C30_Witness ==
    /\ pc = "idle"
    /\ Len(channels) > Cardinality(ConfiguredNames)
    /\ Len(out.notifications) = 2
    /\ out.delivery = "raised"
    /\ \E i \in DOMAIN out.notifications :
          out.notifications[i].reason = "channel is not registered"
    /\ \E i \in DOMAIN out.notifications :
          out.notifications[i].reason = "channel notify failed"
    /\ Len(NotificationEvents(events)) = 2

-----------------------------------------------------------------------------
(* The human inbox *)

\* a step of `wdib message` between two ticks
EnqueueStep == pc = "idle" /\ ticks' = ticks /\ inbox' # inbox

ReceivedEvents(evs) == {k \in DOMAIN evs : evs[k].type = "HUMAN_MESSAGE_RECEIVED"}

\* the trimmed texts enqueue_human_message accepts
CleanedTexts == {Strip(text) : text \in Messages} \ {""}

C39_NoMessageLost ==
    [][(inbox.exists /\ inbox' # inbox) =>
          \E k \in ReceivedEvents(NewEvents) :
              NewEvents[k].message = inbox.lines[Len(inbox.lines)]]_vars

-----------------------------------------------------------------------------
(* The order of the steps of a cycle *)

\* the worker adapter is invoked: it returns a result or raises
WorkerInvoked == pc = "planned" /\ pc' # "planned"

\* the tick returns from the end of the try block
TickCompletes == pc = "reduced" /\ pc' = "idle" /\ out'.kind = "completed"

\* C32: the work order file of the cycle exists when the worker is invoked and
\* the worker result file exists when apply_worker_result runs; the save after
\* the reducer writes the reducer's output state with day set to the cycle's
\* day, and a tick that completes leaves that state.json as it is.
C32_FilesBeforeSteps ==
    [][/\ WorkerInvoked =>
             /\ cur.cycle_id \in files.work_orders
             /\ cur.cycle_id \notin files.worker_results
       /\ ReduceStep =>
             /\ cur.cycle_id \in files.work_orders
             /\ cur.cycle_id \in files.worker_results
             /\ disk' = [apply_worker_result(mem, cur.worker_result).state EXCEPT !.day = cur.day]
             /\ mem' = disk'
       /\ TickCompletes => disk' = disk]_vars

\* the reducer has run on a result that proposed tasks, after both files of
\* the cycle were written
C32_Witness ==
    /\ pc = "reduced"
    /\ cur.cycle_id \in files.work_orders
    /\ cur.cycle_id \in files.worker_results
    /\ cur.worker_result.proposed_tasks # <<>>
    /\ disk.day = cur.day
    /\ disk.tasks # <<>>

ReconcilerEventTypes == {"HARDWARE_STATUS_CHANGED", "HARDWARE_VERIFICATION_FAILED"}

PlannerEventTypes == {"TASK_DEFER_INVALID", "TASK_DEFER_RELEASED", "TASK_PLANNER_ROTATED"}

ReducerEventTypes ==
    {"TASK_CREATED", "TASK_DEFER_CLEARED", "TASK_DEFER_SET", "HARDWARE_REQUEST_CREATED",
     "INCIDENT_CREATED", "BECOMING_UPDATED"}

\* the position of an event in the order of a cycle
Phase(e) ==
    CASE e.type = "CYCLE_STARTED" -> 1
      [] e.type = "MISSION_UNKNOWN" -> 2
      [] e.type = "HUMAN_COMMAND_TERMINATE" -> 3
      [] e.type \in ReconcilerEventTypes -> 3
      [] e.type \in PlannerEventTypes -> 4
      [] e.type = "TASK_STATUS_CHANGED" -> IF e.reason = "planner" THEN 4 ELSE 7
      [] e.type = "BECOMING_REJECTED" -> 5
      [] e.type = "WORKER_EXECUTED" -> 6
      [] e.type \in ReducerEventTypes -> 7
      [] e.type \in {"CYCLE_COMPLETED", "CYCLE_FAILED"} -> 8
      [] e.type \in {"NOTIFICATION_SENT", "NOTIFICATION_FAILED"} -> 9
      [] OTHER -> 0

CycleIndexes(cid) ==
    {i \in DOMAIN events : "cycle_id" \in DOMAIN events[i] /\ events[i].cycle_id = cid}

CycleIds == {events[i].cycle_id : i \in {j \in DOMAIN events : "cycle_id" \in DOMAIN events[j]}}

ClosingEvents(cid) ==
    {i \in CycleIndexes(cid) : events[i].type \in {"CYCLE_COMPLETED", "CYCLE_FAILED"}}

\* C34: a tick that appended CYCLE_STARTED has appended exactly one of
\* CYCLE_COMPLETED and CYCLE_FAILED when it ends, whichever step raised, and
\* never more than one while it runs.
C34_OneClosingEvent ==
    \A cid \in CycleIds :
        /\ Cardinality(ClosingEvents(cid)) <= 1
        /\ (pc = "idle" \/ cid # cur.cycle_id) => Cardinality(ClosingEvents(cid)) = 1

\* C35: no two CYCLE_STARTED events of events.ndjson carry the same day, also
\* when a cycle failed in the worker adapter and the next tick retries it.
C35_DistinctStartDays ==
    \A i, j \in EventsOfType("CYCLE_STARTED") :
        i # j => events[i].day # events[j].day

-----------------------------------------------------------------------------
(* Fairness of the planner *)

\* C36: whatever task_updates the worker sent, when another non-deferred TODO
\* task exists at plan time the planner does not select a task for the third
\* time in a row: the selected task's streak, which counts its consecutive
\* selections, stays at 2 or less.
C36_AtMostTwoConsecutive ==
    [][PlanStep =>
          \A i \in DOMAIN mem'.tasks :
              (/\ i = cur'.task_index
               /\ \E j \in DOMAIN mem.tasks :
                     j # i /\ mem.tasks[j].status = "TODO" /\ ~_is_task_deferred(mem.tasks[j]))
              => mem'.tasks[i].selection_streak <= _MAX_CONSECUTIVE_SELECTIONS]_vars

\* the longest cycle of task lists looked for
MaxPeriod == 3

\* the task list after k more planning passes, when no worker changes a task
RECURSIVE PlanIter(_, _)
PlanIter(state, k) ==
    IF k = 0 THEN state.tasks
    ELSE PlanIter([state EXCEPT !.tasks = plan_work_order(state, mission).tasks], k - 1)

\* the tasks selected by the next k planning passes
RECURSIVE SelectedAlong(_, _)
SelectedAlong(state, k) ==
    IF k = 0 THEN {}
    ELSE LET plan == plan_work_order(state, mission) IN
         {plan.task_index} \cup SelectedAlong([state EXCEPT !.tasks = plan.tasks], k - 1)

\* C37: when the worker never changes a task status and ticks keep running,
\* every non-deferred IN_PROGRESS or TODO task is eventually the task the
\* planner selects: the planner being deterministic, no sequence of planning
\* passes leads from a task list back to itself without selecting every such
\* task on the way.
C37_NoStarvingCycle ==
    [][PlanStep =>
          \A k \in 1..MaxPeriod :
              PlanIter(mem', k) = mem'.tasks =>
                  \A i \in DOMAIN mem'.tasks :
                      Selectable(mem'.tasks[i]) => i \in SelectedAlong(mem', k)]_vars

\* the same as a liveness property of the ticks the budget allows: every task
\* of the initial list is selected by some planning step
EventuallyEveryTaskSelected ==
    \A i \in DOMAIN CrowdedState.tasks :
        <>(pc = "planned" /\ cur.task_index = i)

-----------------------------------------------------------------------------
(* Terminated devices *)

Revived ==
    /\ cur.loaded.status = "TERMINATED"
    /\ cur.message # ""
    /\ ~is_terminate_command(cur.message)

DerivedStatuses == {"ACTIVE", "BLOCKED_HARDWARE", "ERROR"}

====
